---- MODULE Spec2Model ----
(***************************************************************************)
(* A model of the interaction engines of flet_pdf_viewer: the shape engine *)
(* (interactions/shapes.py), the ink engine (interactions/drawing.py), the *)
(* text selection engine (interactions/selection.py) and the search        *)
(* navigator and event routing of PdfViewer (viewer.py).                   *)
(*                                                                         *)
(* Python values are modelled as follows.  None is the empty tuple and an  *)
(* Optional value v is <<v>>; a point (x, y) is the tuple <<x, y>>; a      *)
(* list is a sequence; a dataclass is a record with the fields' names.     *)
(* Coordinates are integers (display units), colours are names.            *)
(***************************************************************************)
EXTENDS Integers, Sequences, FiniteSets, TLC

VARIABLES
    shape_state,      \* ShapeDrawingHandler._state
    drawing_state,    \* DrawingHandler._state
    selection_state,  \* SelectionHandler._state
    selectable_chars, \* SelectionHandler._selectable_chars
    source,           \* PdfViewer._source: None or a document
    current_page,     \* PdfViewer._current_page
    scale,            \* PdfViewer._scale, in tenths
    mode,             \* PdfViewer._mode
    popup_visible,    \* PdfViewer._popup.visible
    replaced,         \* None, or the selection the last call replaced the
                      \* selectable characters under
    on_page_change,   \* PdfViewer._on_page_change, the user's callback
    search_results,   \* PdfViewer._search_results
    search_index,     \* PdfViewer._search_index (0-based, -1: none)
    search_query,     \* PdfViewer._search_query
    ret,              \* what the last call returned (None: nothing)
    raised,           \* the exception the last call raised ("" if none)
    last,             \* the last call: its name and arguments ("viewer":
                      \* a viewer call that is no search call)
    emitted,          \* the texts on_selection_change was called with by the
                      \* last call to the selection engine or the viewer
    drag,             \* the drag in progress on the selection engine driven on
                      \* its own, while its character list stays as it is:
                      \* the point it started at and the last point it was
                      \* updated to
    returned,         \* the list end_stroke last returned, as its caller now
                      \* sees it: its length, and whether the engine still
                      \* records into it
    last_start,       \* the point given to start_shape for the shape in progress
    last_update       \* the point last given to update_shape for that shape

vars == <<shape_state, drawing_state, selection_state, selectable_chars,
          source, current_page, scale, mode, popup_visible, replaced,
          on_page_change,
          search_results, search_index, search_query,
          ret, raised, last, returned, emitted, drag, last_start,
          last_update>>

shape_vars == <<shape_state, last_start, last_update>>
ink_vars == <<drawing_state, returned>>
sel_vars == <<selection_state, selectable_chars, emitted, drag>>
view_vars == <<source, current_page, scale, mode, popup_visible, replaced,
               on_page_change>>
search_vars == <<search_results, search_index, search_query>>

None == <<>>
Some(v) == <<v>>
Call(op, args) == [op |-> op, args |-> args]

(***************************************************************************)
(* Bounds of the model.                                                    *)
(***************************************************************************)
MaxCoord == 1       \* shape pointer coordinates range over 0..MaxCoord
MaxPath == 3        \* longest ink path recorded

Colors == {"black", "red"}
Widths == {2, 3}

(***************************************************************************)
(* types.py: ShapeType                                                     *)
(***************************************************************************)
ShapeType == {"none", "rectangle", "circle", "line", "arrow", "text"}

(***************************************************************************)
(* interactions/shapes.py                                                  *)
(***************************************************************************)
ShapeDrawingState ==
    [shape_type |-> "none", stroke_color |-> "black", fill_color |-> None,
     stroke_width |-> 2,
     start_x |-> None, start_y |-> None, end_x |-> None, end_y |-> None,
     is_drawing |-> FALSE]

_clear_points_keeps_drawing(st) ==
    [st EXCEPT !.start_x = None, !.start_y = None,
               !.end_x = None, !.end_y = None]

_clear_points(st) ==
    [st EXCEPT !.start_x = None, !.start_y = None,
               !.end_x = None, !.end_y = None, !.is_drawing = FALSE]

Shape_enabled(st) == st.shape_type # "none"

\* enable that leaves the shape being drawn as it is
Shape_enable_keeps_points(st, shape_type, stroke_color, fill_color, stroke_width) ==
    [st EXCEPT !.shape_type = shape_type, !.stroke_color = stroke_color,
               !.fill_color = fill_color, !.stroke_width = stroke_width]

Shape_enable(st, shape_type, stroke_color, fill_color, stroke_width) ==
    _clear_points([st EXCEPT !.shape_type = shape_type,
                             !.stroke_color = stroke_color,
                             !.fill_color = fill_color,
                             !.stroke_width = stroke_width])

Shape_disable(st) == _clear_points([st EXCEPT !.shape_type = "none"])

start_shape(st, x, y) ==
    IF Shape_enabled(st)
    THEN [st EXCEPT !.start_x = Some(x), !.start_y = Some(y),
                    !.end_x = Some(x), !.end_y = Some(y), !.is_drawing = TRUE]
    ELSE st

\* update_shape that moves the start point along with the end point
update_shape_moves_start(st, x, y) ==
    IF st.is_drawing
    THEN [st EXCEPT !.start_x = Some(x), !.start_y = Some(y),
                    !.end_x = Some(x), !.end_y = Some(y)]
    ELSE st

update_shape(st, x, y) ==
    IF st.is_drawing
    THEN [st EXCEPT !.end_x = Some(x), !.end_y = Some(y)]
    ELSE st

\* end_shape with the result built from the end point alone
end_shape_from_end(st) ==
    IF ~st.is_drawing THEN [st |-> st, ret |-> None]
    ELSE [st |-> _clear_points(st),
          ret |-> Some(<<st.shape_type, st.end_x[1], st.end_y[1],
                         st.end_x[1], st.end_y[1]>>)]

\* the new state and the value returned
end_shape(st) ==
    IF ~st.is_drawing THEN [st |-> st, ret |-> None]
    ELSE IF \/ st.start_x = None \/ st.start_y = None
            \/ st.end_x = None \/ st.end_y = None
         THEN [st |-> _clear_points(st), ret |-> None]
         ELSE [st |-> _clear_points(st),
               ret |-> Some(<<st.shape_type, st.start_x[1], st.start_y[1],
                              st.end_x[1], st.end_y[1]>>)]

cancel_shape(st) == _clear_points(st)

(***************************************************************************)
(* The shape engine driven call by call.                                   *)
(***************************************************************************)
Coords == 0..MaxCoord
OptColors == {None, Some("red")}

ShapeEnable ==
    \E t \in ShapeType, sc \in Colors, fc \in OptColors, w \in Widths :
        /\ shape_state' = Shape_enable(shape_state, t, sc, fc, w)
        /\ ret' = None /\ raised' = ""
        \* the call and whether a shape was being drawn when it was made
        /\ last' = [op |-> "Shape_enable", args |-> <<t, sc, fc, w>>,
                    pre |-> shape_state.is_drawing]
        /\ last_start' = None /\ last_update' = None
        /\ UNCHANGED <<ink_vars, sel_vars, view_vars, search_vars>>

ShapeDisable ==
    /\ shape_state' = Shape_disable(shape_state)
    /\ ret' = None /\ raised' = ""
    /\ last' = Call("Shape_disable", <<>>)
    /\ last_start' = None /\ last_update' = None
    /\ UNCHANGED <<ink_vars, sel_vars, view_vars, search_vars>>

StartShape ==
    \E x \in Coords, y \in Coords :
        /\ shape_state' = start_shape(shape_state, x, y)
        /\ ret' = None /\ raised' = ""
        /\ last' = Call("start_shape", <<x, y>>)
        /\ IF Shape_enabled(shape_state)
           THEN last_start' = Some(<<x, y>>) /\ last_update' = None
           ELSE UNCHANGED <<last_start, last_update>>
        /\ UNCHANGED <<ink_vars, sel_vars, view_vars, search_vars>>

UpdateShape ==
    \E x \in Coords, y \in Coords :
        /\ shape_state' = update_shape(shape_state, x, y)
        /\ ret' = None /\ raised' = ""
        /\ last' = Call("update_shape", <<x, y>>)
        /\ IF shape_state.is_drawing
           THEN last_update' = Some(<<x, y>>) /\ UNCHANGED last_start
           ELSE UNCHANGED <<last_start, last_update>>
        /\ UNCHANGED <<ink_vars, sel_vars, view_vars, search_vars>>

EndShape ==
    /\ shape_state' = end_shape(shape_state).st
    /\ ret' = end_shape(shape_state).ret
    /\ raised' = ""
    /\ last' = Call("end_shape", <<>>)
    /\ last_start' = None /\ last_update' = None
    /\ UNCHANGED <<ink_vars, sel_vars, view_vars, search_vars>>

CancelShape ==
    /\ shape_state' = cancel_shape(shape_state)
    /\ ret' = None /\ raised' = ""
    /\ last' = Call("cancel_shape", <<>>)
    /\ last_start' = None /\ last_update' = None
    /\ UNCHANGED <<ink_vars, sel_vars, view_vars, search_vars>>

(***************************************************************************)
(* interactions/drawing.py                                                 *)
(***************************************************************************)
DrawingState ==
    [enabled |-> FALSE, color |-> "black", width |-> 2, current_path |-> <<>>]

\* enable that keeps the path being recorded
Drawing_enable_keeps_path(st, color, width) ==
    [st EXCEPT !.enabled = TRUE, !.color = color, !.width = width]

Drawing_enable(st, color, width) ==
    [st EXCEPT !.enabled = TRUE, !.color = color, !.width = width,
               !.current_path = <<>>]

\* disable that keeps the path being recorded
Drawing_disable_keeps_path(st) == [st EXCEPT !.enabled = FALSE]

Drawing_disable(st) == [st EXCEPT !.enabled = FALSE, !.current_path = <<>>]

start_stroke(st, x, y) ==
    IF st.enabled THEN [st EXCEPT !.current_path = <<<<x, y>>>>] ELSE st

\* ((x - last_x) ** 2 + (y - last_y) ** 2) ** 0.5 >= min_distance, compared
\* on the squares: the coordinates and min_distance are non-negative integers
FarEnough(p, q, min_distance) ==
    (p[1] - q[1]) * (p[1] - q[1]) + (p[2] - q[2]) * (p[2] - q[2])
        >= min_distance * min_distance

\* add_point measuring the distance from the first point of the path
add_point_from_first(st, x, y, min_distance) ==
    IF st.enabled /\ st.current_path # <<>>
    THEN IF FarEnough(<<x, y>>, st.current_path[1], min_distance)
         THEN [st EXCEPT !.current_path = Append(@, <<x, y>>)]
         ELSE st
    ELSE IF st.enabled
         THEN [st EXCEPT !.current_path = Append(@, <<x, y>>)]
         ELSE st

add_point(st, x, y, min_distance) ==
    IF st.enabled /\ st.current_path # <<>>
    THEN IF FarEnough(<<x, y>>, st.current_path[Len(st.current_path)],
                      min_distance)
         THEN [st EXCEPT !.current_path = Append(@, <<x, y>>)]
         ELSE st
    ELSE IF st.enabled
         THEN [st EXCEPT !.current_path = Append(@, <<x, y>>)]
         ELSE st

\* end_stroke that returns nothing for a path of fewer than two points
end_stroke_drops_short(st) ==
    [st |-> [st EXCEPT !.current_path = <<>>],
     ret |-> IF Len(st.current_path) < 2 THEN <<>> ELSE st.current_path,
     live |-> FALSE]

\* end_stroke that hands out the list it goes on recording into, without
\* binding current_path to a new one
end_stroke_keeps_list(st) ==
    [st |-> st, ret |-> st.current_path, live |-> TRUE]

\* the new state, the list returned and whether that list is still the one
\* the engine records into (it is not: current_path is bound to a new list)
end_stroke(st) ==
    [st |-> [st EXCEPT !.current_path = <<>>], ret |-> st.current_path,
     live |-> FALSE]

clear_path(st) == [st EXCEPT !.current_path = <<>>]

(***************************************************************************)
(* The ink engine driven call by call.  Pointer positions are drawn from a *)
(* grid on which two points can be nearer than, exactly at and farther     *)
(* than the default min_distance: (0,0)-(3,0) is 3, (0,0)-(3,4) is 5 and   *)
(* (0,0)-(6,0) is 6.                                                       *)
(***************************************************************************)
DefaultMinDistance == 5

\* the list the caller holds after the engine has bound current_path to a
\* new list: it is no longer the list recorded into
Rebound(held) ==
    IF held = None THEN None ELSE Some([held[1] EXCEPT !.live = FALSE])

\* the list the caller holds after an append to current_path: it shows the
\* appended point if it is the list recorded into
Appended(held, path) ==
    IF held # None /\ held[1].live THEN Some([held[1] EXCEPT !.len = Len(path)])
    ELSE held
InkXs == {0, 3, 6}
InkYs == {0, 4}

DrawingEnable ==
    \E c \in Colors, w \in Widths :
        /\ drawing_state' = Drawing_enable(drawing_state, c, w)
        /\ ret' = None /\ raised' = ""
        \* the call and the number of points recorded when it was made
        /\ last' = [op |-> "Drawing_enable", args |-> <<c, w>>,
                    pre |-> Len(drawing_state.current_path)]
        /\ returned' = Rebound(returned)
        /\ UNCHANGED <<shape_vars, sel_vars,
                     view_vars, search_vars>>

DrawingDisable ==
    /\ drawing_state' = Drawing_disable(drawing_state)
    /\ ret' = None /\ raised' = ""
    /\ last' = Call("Drawing_disable", <<>>)
    /\ returned' = Rebound(returned)
    /\ UNCHANGED <<shape_vars, sel_vars,
                     view_vars, search_vars>>

StartStroke ==
    \E x \in InkXs, y \in InkYs :
        /\ drawing_state' = start_stroke(drawing_state, x, y)
        /\ ret' = None /\ raised' = ""
        /\ last' = Call("start_stroke", <<x, y>>)
        /\ returned' = IF drawing_state.enabled THEN Rebound(returned)
                                                ELSE returned
        /\ UNCHANGED <<shape_vars, sel_vars,
                     view_vars, search_vars>>

AddPoint ==
    \E x \in InkXs, y \in InkYs :
        /\ drawing_state' = add_point(drawing_state, x, y, DefaultMinDistance)
        /\ Len(drawing_state'.current_path) <= MaxPath
        /\ ret' = None /\ raised' = ""
        /\ last' = Call("add_point", <<x, y>>)
        /\ returned' = Appended(returned, drawing_state'.current_path)
        /\ UNCHANGED <<shape_vars, sel_vars,
                     view_vars, search_vars>>

EndStroke ==
    /\ drawing_state' = end_stroke(drawing_state).st
    /\ ret' = end_stroke(drawing_state).ret
    /\ raised' = ""
    /\ last' = Call("end_stroke", <<>>)
    /\ returned' = Some([len |-> Len(end_stroke(drawing_state).ret),
                         live |-> end_stroke(drawing_state).live])
    /\ UNCHANGED <<shape_vars, sel_vars,
                     view_vars, search_vars>>

ClearPath ==
    /\ drawing_state' = clear_path(drawing_state)
    /\ ret' = None /\ raised' = ""
    /\ last' = Call("clear_path", <<>>)
    /\ returned' = Rebound(returned)
    /\ UNCHANGED <<shape_vars, sel_vars,
                     view_vars, search_vars>>

(***************************************************************************)
(* interactions/selection.py                                               *)
(***************************************************************************)
SelectionState ==
    [start |-> None, end |-> None, is_selecting |-> FALSE,
     selected_chars |-> <<>>]

Min(a, b) == IF a <= b THEN a ELSE b
Max(a, b) == IF a >= b THEN a ELSE b

\* Python's round(y / 10) for an integer y: y / 10 is exactly halfway
\* between two integers when y % 10 = 5, and round() then takes the even one
LineKey(y) ==
    LET q == y \div 10
        r == y % 10
    IN IF r < 5 THEN q
       ELSE IF r > 5 THEN q + 1
       ELSE IF q % 2 = 0 THEN q ELSE q + 1

\* char.x + char.page_offset_x and char.y + char.page_offset_y
OffsetX(c) == c.x + c.page_offset_x
OffsetY(c) == c.y + c.page_offset_y
ByOffsetX(c, d) == OffsetX(c) < OffsetX(d)

\* sorted(seq, key=lambda c: c.x + c.page_offset_x): stable
sorted(seq) ==
    LET n == Len(seq)
        pos(i) == 1 + Cardinality({j \in 1..n :
                        \/ ByOffsetX(seq[j], seq[i])
                        \/ (~ByOffsetX(seq[i], seq[j]) /\ j < i)})
    IN [k \in 1..n |-> seq[CHOOSE i \in 1..n : pos(i) = k]]

\* intersection that also counts rectangles touching on an edge
_rects_intersect_closed(ax1, ay1, ax2, ay2, bx1, by1, bx2, by2) ==
    ax1 <= bx2 /\ ax2 >= bx1 /\ ay1 <= by2 /\ ay2 >= by1

_rects_intersect(ax1, ay1, ax2, ay2, bx1, by1, bx2, by2) ==
    ax1 < bx2 /\ ax2 > bx1 /\ ay1 < by2 /\ ay2 > by1

Abs(a) == IF a < 0 THEN -a ELSE a

\* the sort key of selected_text, (c.page_index, round(c.y / 10), c.x),
\* compared as Python compares tuples
TextKeyBefore(c, d) ==
    \/ c.page_index < d.page_index
    \/ /\ c.page_index = d.page_index
       /\ \/ LineKey(c.y) < LineKey(d.y)
          \/ LineKey(c.y) = LineKey(d.y) /\ c.x < d.x

\* sorted(selected_chars, key=...) of selected_text: stable
sorted_chars(seq) ==
    LET n == Len(seq)
        pos(i) == 1 + Cardinality({j \in 1..n :
                        \/ TextKeyBefore(seq[j], seq[i])
                        \/ (~TextKeyBefore(seq[i], seq[j]) /\ j < i)})
    IN [k \in 1..n |-> seq[CHOOSE i \in 1..n : pos(i) = k]]

\* the loop body with a space put in also when the gap equals the threshold
TextStep_space_on_equal(acc, char) ==
    LET break == /\ acc.last_char # None
                 /\ \/ 2 * Abs(char.y - acc.last_char[1].y) > char.height
                    \/ char.page_index # acc.last_page
        line == IF break THEN <<>> ELSE acc.current_line
        space == /\ ~break
                 /\ acc.last_char # None
                 /\ 20 * (char.x - (acc.last_char[1].x
                                     + acc.last_char[1].width))
                        >= 3 * (char.width + acc.last_char[1].width)
    IN [result |-> IF break THEN Append(acc.result, acc.current_line)
                            ELSE acc.result,
        current_line |-> Append(IF space THEN Append(line, " ") ELSE line,
                                char.char),
        last_char |-> Some(char),
        last_page |-> char.page_index]

\* A text is the sequence of its characters; "\n" is the newline.
\* One round of the loop of selected_text over the sorted characters;
\* abs(dy) > height * 0.5 and gap > avg_width * 0.3 are compared after
\* multiplying by 2 and by 20.
TextStep(acc, char) ==
    LET break == /\ acc.last_char # None
                 /\ \/ 2 * Abs(char.y - acc.last_char[1].y) > char.height
                    \/ char.page_index # acc.last_page
        a1 == IF break
              THEN [acc EXCEPT !.result = IF acc.current_line # <<>>
                                          THEN Append(@, acc.current_line)
                                          ELSE @,
                               !.current_line = <<>>,
                               !.last_char = None]
              ELSE acc
        space == /\ a1.last_char # None
                 /\ char.page_index = a1.last_page
                 /\ LET gap == char.x - (a1.last_char[1].x
                                          + a1.last_char[1].width)
                    IN 20 * gap > 3 * (char.width + a1.last_char[1].width)
    IN [result |-> a1.result,
        current_line |-> Append(IF space THEN Append(a1.current_line, " ")
                                         ELSE a1.current_line,
                                char.char),
        last_char |-> Some(char),
        last_page |-> char.page_index]

RECURSIVE TextWalk(_, _, _)
TextWalk(chars, i, acc) ==
    IF i > Len(chars) THEN acc
    ELSE TextWalk(chars, i + 1, TextStep(acc, chars[i]))

\* "\n".join(result)
RECURSIVE join(_)
join(lines) ==
    IF lines = <<>> THEN <<>>
    ELSE IF Len(lines) = 1 THEN lines[1]
    ELSE lines[1] \o <<"\n">> \o join(Tail(lines))

selected_text(st) ==
    IF st.selected_chars = <<>> THEN <<>>
    ELSE LET acc == TextWalk(sorted_chars(st.selected_chars), 1,
                             [result |-> <<>>, current_line |-> <<>>,
                              last_char |-> None, last_page |-> None])
         IN join(IF acc.current_line # <<>>
                 THEN Append(acc.result, acc.current_line)
                 ELSE acc.result)

set_selectable_chars(chars) == chars

\* start_selection that keeps what was selected
start_selection_keeps_selected(st, x, y) ==
    [start |-> Some(<<x, y>>), end |-> Some(<<x, y>>), is_selecting |-> TRUE,
     selected_chars |-> st.selected_chars]

start_selection(st, x, y) ==
    [start |-> Some(<<x, y>>), end |-> Some(<<x, y>>), is_selecting |-> TRUE,
     selected_chars |-> <<>>]

_update_selected_chars(st, chars) ==
    IF st.start = None \/ st.end = None THEN st
    ELSE
    LET x1 == Min(st.start[1][1], st.end[1][1])
        y1 == Min(st.start[1][2], st.end[1][2])
        x2 == Max(st.start[1][1], st.end[1][1])
        y2 == Max(st.start[1][2], st.end[1][2])
        Hit(c) == _rects_intersect(x1, y1, x2, y2,
                                   OffsetX(c), OffsetY(c),
                                   OffsetX(c) + c.width, OffsetY(c) + c.height)
        directly_selected == SelectSeq(chars, Hit)
        \* the keys of the dict lines, and one of its values
        keys == {LineKey(OffsetY(directly_selected[i])) :
                     i \in 1..Len(directly_selected)}
        OnLine(k, c) == LineKey(OffsetY(c)) = k
        lines(k) == SelectSeq(directly_selected, LAMBDA c : OnLine(k, c))
    IN IF directly_selected = <<>>
       THEN [st EXCEPT !.selected_chars = <<>>]
       ELSE IF Cardinality(keys) <= 1
       THEN [st EXCEPT !.selected_chars = directly_selected]
       ELSE
       LET first_line_key == CHOOSE k \in keys : \A m \in keys : k <= m
           last_line_key == CHOOSE k \in keys : \A m \in keys : k >= m
           first_line_chars == sorted(lines(first_line_key))
           first_selected_x == OffsetX(first_line_chars[1])
           last_line_chars == sorted(lines(last_line_key))
           last_char == last_line_chars[Len(last_line_chars)]
           last_selected_x == OffsetX(last_char) + last_char.width
           Extended(c) ==
               LET char_y_key == LineKey(OffsetY(c)) IN
               IF char_y_key < first_line_key \/ char_y_key > last_line_key
               THEN FALSE
               ELSE IF char_y_key = first_line_key
               THEN OffsetX(c) >= first_selected_x - 1
               ELSE IF char_y_key = last_line_key
               THEN OffsetX(c) + c.width <= last_selected_x + 1
               ELSE TRUE
       IN [st EXCEPT !.selected_chars = SelectSeq(chars, Extended)]

\* update_selection that does not test is_selecting
update_selection_always(st, chars, x, y) ==
    _update_selected_chars([st EXCEPT !.end = Some(<<x, y>>)], chars)

update_selection(st, chars, x, y) ==
    IF ~st.is_selecting THEN st
    ELSE _update_selected_chars([st EXCEPT !.end = Some(<<x, y>>)], chars)

\* end_selection that calls the callback whatever is selected
end_selection_always_calls(st) ==
    [st |-> [st EXCEPT !.is_selecting = FALSE],
     emitted |-> <<selected_text(st)>>]

\* the new state and the texts on_selection_change was called with; the
\* handler has been given a callback
end_selection(st) ==
    [st |-> [st EXCEPT !.is_selecting = FALSE],
     emitted |-> IF st.selected_chars # <<>> THEN <<selected_text(st)>>
                 ELSE <<>>]

\* clear that empties the selection and keeps the two points
Selection_clear_keeps_points(st) ==
    [st EXCEPT !.is_selecting = FALSE, !.selected_chars = <<>>]

Selection_clear(st) == SelectionState

\* the line keys from the greatest to the least
sorted_line_keys_descending(keys) ==
    [i \in 1..Cardinality(keys) |->
        CHOOSE k \in keys : Cardinality({j \in keys : j > k}) = i - 1]

\* sorted(lines.keys())
sorted_line_keys(keys) ==
    [i \in 1..Cardinality(keys) |->
        CHOOSE k \in keys : Cardinality({j \in keys : j < k}) = i - 1]

\* min(...) and max(...) over the members of a sequence of numbers
MinOf(seq) == CHOOSE m \in {seq[i] : i \in 1..Len(seq)} :
                  \A i \in 1..Len(seq) : m <= seq[i]
MaxOf(seq) == CHOOSE m \in {seq[i] : i \in 1..Len(seq)} :
                  \A i \in 1..Len(seq) : m >= seq[i]

\* the rectangles (x1, y1, x2, y2) of the visual highlight
get_highlight_rects(st, all_chars) ==
    LET chars == st.selected_chars
        y_key(c) == LineKey(OffsetY(c))
        keys == {y_key(chars[i]) : i \in 1..Len(chars)}
        tops(cs) == [i \in 1..Len(cs) |-> OffsetY(cs[i])]
        bottoms(cs) == [i \in 1..Len(cs) |-> OffsetY(cs[i]) + cs[i].height]
        lefts(cs) == [i \in 1..Len(cs) |-> OffsetX(cs[i])]
        rights(cs) == [i \in 1..Len(cs) |-> OffsetX(cs[i]) + cs[i].width]
    IN IF chars = <<>> THEN <<>>
       ELSE IF Cardinality(keys) <= 1
       THEN LET sorted_chars_x == sorted(chars)
                first == sorted_chars_x[1]
                last_c == sorted_chars_x[Len(sorted_chars_x)]
            IN << <<OffsetX(first), MinOf(tops(sorted_chars_x)),
                    OffsetX(last_c) + last_c.width,
                    MaxOf(bottoms(sorted_chars_x))>> >>
       ELSE LET line_keys == sorted_line_keys(keys)
                on_line(k) == SelectSeq(all_chars, LAMBDA c : y_key(c) = k)
                rect(i) ==
                    LET k == line_keys[i]
                        line_chars ==
                            sorted(SelectSeq(chars, LAMBDA c : y_key(c) = k))
                        first_char == line_chars[1]
                        last_char == line_chars[Len(line_chars)]
                        line_start == IF on_line(k) = <<>>
                                      THEN OffsetX(first_char)
                                      ELSE MinOf(lefts(on_line(k)))
                        line_end == IF on_line(k) = <<>>
                                    THEN OffsetX(last_char) + last_char.width
                                    ELSE MaxOf(rights(on_line(k)))
                    IN <<IF i = 1 THEN OffsetX(first_char) ELSE line_start,
                         MinOf(tops(line_chars)),
                         IF i = 1 THEN line_end
                         ELSE IF i = Len(line_keys)
                         THEN OffsetX(last_char) + last_char.width
                         ELSE line_end,
                         MaxOf(bottoms(line_chars))>>
            IN [i \in 1..Len(line_keys) |-> rect(i)]

(***************************************************************************)
(* The selection engine driven call by call.  set_selectable_chars is      *)
(* given one of four character lists:                                      *)
(*   GridChars       three lines of three 10 x 10 characters;              *)
(*   NestedChars     a last line holding a wide, low character and,       *)
(*                   inside its horizontal extent, a narrow one;           *)
(*   ContinuousChars two pages laid out one below the other                *)
(*                   (page_offset_y), the second at an offset whose line   *)
(*                   quotients are exactly halfway between two integers;   *)
(*   DoubleChars     two pages side by side (page_offset_x);               *)
(*   WordChars       a line of a capital, a low subscript after it and two *)
(*                   letters after gaps of 3, and on a second page below   *)
(*                   it a wide character with a narrow one set over it,    *)
(*                   2 higher.                                             *)
(***************************************************************************)
SelectableChar(char, x, y, width, height, page_index, ox, oy) ==
    [char |-> char, x |-> x, y |-> y, width |-> width, height |-> height,
     page_index |-> page_index, page_offset_x |-> ox, page_offset_y |-> oy,
     render |-> 0]

GridChars ==
    << SelectableChar("a", 0, 0, 10, 10, 0, 0, 0),
       SelectableChar("b", 10, 0, 10, 10, 0, 0, 0),
       SelectableChar("c", 20, 0, 10, 10, 0, 0, 0),
       SelectableChar("d", 0, 10, 10, 10, 0, 0, 0),
       SelectableChar("e", 10, 10, 10, 10, 0, 0, 0),
       SelectableChar("f", 20, 10, 10, 10, 0, 0, 0),
       SelectableChar("g", 0, 20, 10, 10, 0, 0, 0),
       SelectableChar("h", 10, 20, 10, 10, 0, 0, 0),
       SelectableChar("i", 20, 20, 10, 10, 0, 0, 0) >>

NestedChars ==
    << SelectableChar("a", 0, 0, 10, 10, 0, 0, 0),
       SelectableChar("b", 10, 0, 10, 10, 0, 0, 0),
       SelectableChar("c", 20, 0, 10, 10, 0, 0, 0),
       SelectableChar("d", 0, 10, 10, 10, 0, 0, 0),
       SelectableChar("e", 20, 10, 10, 10, 0, 0, 0),
       SelectableChar("W", 0, 20, 30, 4, 0, 0, 0),
       SelectableChar("n", 10, 24, 5, 4, 0, 0, 0) >>

ContinuousChars ==
    << SelectableChar("a", 0, 0, 10, 10, 0, 0, 0),
       SelectableChar("b", 10, 0, 10, 10, 0, 0, 0),
       SelectableChar("c", 0, 0, 10, 10, 1, 0, 25),
       SelectableChar("d", 10, 0, 10, 10, 1, 0, 25),
       SelectableChar("e", 0, 10, 10, 10, 1, 0, 25) >>

DoubleChars ==
    << SelectableChar("a", 0, 0, 10, 10, 0, 0, 0),
       SelectableChar("b", 10, 0, 10, 10, 0, 0, 0),
       SelectableChar("c", 0, 0, 10, 10, 1, 26, 0),
       SelectableChar("d", 10, 0, 10, 10, 1, 26, 0) >>

WordChars ==
    << SelectableChar("T", 0, 0, 10, 10, 0, 0, 0),
       SelectableChar("s", 10, 4, 5, 4, 0, 0, 0),
       SelectableChar("u", 18, 0, 10, 10, 0, 0, 0),
       SelectableChar("v", 31, 0, 10, 10, 0, 0, 0),
       SelectableChar("A", 0, 6, 30, 10, 1, 0, 25),
       SelectableChar("o", 10, 4, 10, 10, 1, 0, 25) >>

Layouts == {GridChars, NestedChars, ContinuousChars, DoubleChars, WordChars}

\* pointer positions: inside characters, on their edges and outside them
PointerXs == {5, 10, 12, 40}
PointerYs == {5, 25, 36}

SetSelectableChars ==
    \E chars \in Layouts :
        /\ selectable_chars' = set_selectable_chars(chars)
        /\ ret' = None /\ raised' = ""
        /\ last' = Call("set_selectable_chars", <<>>)
        /\ drag' = IF selectable_chars' = selectable_chars THEN drag ELSE None
        /\ emitted' = <<>>
        /\ UNCHANGED <<selection_state, shape_vars, ink_vars,
                     view_vars, search_vars>>

StartSelection ==
    \E x \in PointerXs, y \in PointerYs :
        /\ selection_state' = start_selection(selection_state, x, y)
        /\ ret' = None /\ raised' = ""
        /\ last' = Call("start_selection", <<x, y>>)
        /\ drag' = Some([start |-> <<x, y>>, last |-> None])
        /\ emitted' = <<>>
        /\ UNCHANGED <<selectable_chars, shape_vars, ink_vars,
                     view_vars, search_vars>>

UpdateSelection ==
    \E x \in PointerXs, y \in PointerYs :
        /\ selection_state' =
               update_selection(selection_state, selectable_chars, x, y)
        /\ ret' = None /\ raised' = ""
        /\ last' = Call("update_selection", <<x, y>>)
        /\ drag' = IF drag # None /\ selection_state.is_selecting
                   THEN Some([drag[1] EXCEPT !.last = Some(<<x, y>>)])
                   ELSE drag
        /\ emitted' = <<>>
        /\ UNCHANGED <<selectable_chars, shape_vars, ink_vars,
                     view_vars, search_vars>>

EndSelection ==
    /\ selection_state' = end_selection(selection_state).st
    /\ emitted' = end_selection(selection_state).emitted
    /\ drag' = None
    /\ ret' = None /\ raised' = ""
    /\ last' = Call("end_selection", <<>>)
    /\ UNCHANGED <<selectable_chars, shape_vars, ink_vars,
                     view_vars, search_vars>>

SelectionClear ==
    /\ selection_state' = Selection_clear(selection_state)
    /\ ret' = None /\ raised' = ""
    /\ last' = Call("Selection_clear", <<>>)
    /\ drag' = None
    /\ emitted' = <<>>
    /\ UNCHANGED <<selectable_chars, shape_vars, ink_vars,
                     view_vars, search_vars>>

\* A coordinate divided by the scale is kept as the fraction
\* <<10 * coordinate, scale in tenths>>.
\* char_rect with the page offsets added
char_rect_with_offsets(char, scale_arg) ==
    <<<<10 * OffsetX(char), scale_arg>>, <<10 * OffsetY(char), scale_arg>>,
      <<10 * (OffsetX(char) + char.width), scale_arg>>,
      <<10 * (OffsetY(char) + char.height), scale_arg>>>>

\* (char.x / scale, char.y / scale, (char.x + char.width) / scale,
\*  (char.y + char.height) / scale)
char_rect(char, scale_arg) ==
    <<<<10 * char.x, scale_arg>>, <<10 * char.y, scale_arg>>,
      <<10 * (char.x + char.width), scale_arg>>,
      <<10 * (char.y + char.height), scale_arg>>>>

\* The characters given are those of one page, so that the sort key
\* (round(c.y / 10), c.x) orders them as sorted_chars does.  Fractions of
\* one denominator are compared by their numerators.
_merge_char_rects(chars, scale_arg) ==
    LET sorted_page == sorted_chars(chars)
        step(acc, char) ==
            LET rect == char_rect(char, scale_arg)
            IN IF acc.current_rect = None
               THEN [acc EXCEPT !.current_rect = Some(rect),
                                !.last_y = char.y]
               ELSE IF 2 * Abs(char.y - acc.last_y) < char.height
               THEN LET cur == acc.current_rect[1]
                    IN [acc EXCEPT !.current_rect =
                           Some(<<cur[1],
                                  IF rect[2][1] < cur[2][1] THEN rect[2]
                                                            ELSE cur[2],
                                  rect[3],
                                  IF rect[4][1] > cur[4][1] THEN rect[4]
                                                            ELSE cur[4]>>)]
               ELSE [rects |-> Append(acc.rects, acc.current_rect[1]),
                     current_rect |-> Some(rect),
                     last_y |-> char.y]
        RECURSIVE walk(_, _)
        walk(i, acc) == IF i > Len(sorted_page) THEN acc
                        ELSE walk(i + 1, step(acc, sorted_page[i]))
        done == walk(1, [rects |-> <<>>, current_rect |-> None,
                         last_y |-> None])
    IN IF chars = <<>> THEN <<>>
       ELSE IF done.current_rect # None
       THEN Append(done.rects, done.current_rect[1])
       ELSE done.rects

\* the mapping from page index to the rectangles of that page
get_annotation_rects(st, scale_arg) ==
    LET chars == st.selected_chars
        pages == {chars[i].page_index : i \in 1..Len(chars)}
    IN [page_index \in pages |->
           _merge_char_rects(
               SelectSeq(chars, LAMBDA c : c.page_index = page_index),
               scale_arg)]

\* the annotation rectangles are asked for at the scale 1.0 or 2.0, held in
\* tenths; nothing changes
GetAnnotationRects ==
    \E scale_arg \in {10, 20} :
        /\ ret' = get_annotation_rects(selection_state, scale_arg)
        /\ raised' = ""
        /\ last' = Call("get_annotation_rects", <<scale_arg>>)
        /\ emitted' = <<>>
        /\ UNCHANGED <<selection_state, selectable_chars, drag, shape_vars,
                       ink_vars, view_vars, search_vars>>

\* the highlight is asked for; nothing changes
GetHighlightRects ==
    /\ ret' = get_highlight_rects(selection_state, selectable_chars)
    /\ raised' = ""
    /\ last' = Call("get_highlight_rects", <<>>)
    /\ emitted' = <<>>
    /\ UNCHANGED <<selection_state, selectable_chars, drag, shape_vars,
                   ink_vars, view_vars, search_vars>>

\* The line keys of two characters, as _update_selected_chars and
\* get_highlight_rects compute them from the offset y values of the two.
MaxLineY == 30
LineYs == 0..MaxLineY

LineKeys ==
    \E y1 \in LineYs, y2 \in LineYs :
        /\ ret' = Some(<<LineKey(y1), LineKey(y2)>>)
        /\ raised' = ""
        /\ last' = Call("line_key", <<y1, y2>>)
        /\ UNCHANGED <<shape_vars, ink_vars, sel_vars, view_vars, search_vars>>

(***************************************************************************)
(* The document backend (backends/base.py), an external collaborator: a    *)
(* document "A" of NumPages pages.  Every page is 30 x 20 and holds two    *)
(* 10 x 10 characters on one line.  The matches of a query on a page are   *)
(* numbered: "a" matches once on page 0 and twice on every other even      *)
(* page, "b" matches once on page 1, and nothing else matches.             *)
(***************************************************************************)
NumPages == 3       \* pages of document "A"

Docs == {"A"}
Queries == {"", "a", "b", "c"}     \* "c" matches nowhere
page_count(doc) == NumPages
PageSize == [width |-> 30, height |-> 20]
extract_chars(doc, page_index) ==
    << [char |-> "x", x |-> 0, y |-> 0, width |-> 10, height |-> 10],
       [char |-> "y", x |-> 10, y |-> 0, width |-> 10, height |-> 10] >>

Matches(doc, query, page_index) ==
    IF query = "a" /\ page_index % 2 = 0
    THEN (IF page_index = 0 THEN 1 ELSE 2)
    ELSE IF query = "b" /\ page_index = 1 THEN 1
    ELSE 0

\* PageBackend.search_text: one SearchResult per match, page_index its page
search_text(doc, page_index, query) ==
    [k \in 1..Matches(doc, query, page_index) |->
        [page_index |-> page_index, text |-> query, rect |-> k]]

(***************************************************************************)
(* viewer.py: PdfViewer.  A viewer operator takes the viewer (self, the    *)
(* record of its fields) and gives the viewer after the call; a method     *)
(* that returns a value gives [self, ret, raised].                         *)
(*                                                                         *)
(* on_page_change is the user's callback.  It is one of: a callback that   *)
(* does not touch the viewer, one that calls clear_search(), one that      *)
(* calls search(q).  A callback that is entered again while it runs (its   *)
(* own search changed the page) returns at once.                           *)
(***************************************************************************)
page_gap == 16
Modes == {"single", "continuous", "double"}
Scales == {10, 60}     \* a scale is held in tenths: 10 is 1.0
Callbacks == {<<"none">>, <<"clear_search">>, <<"search", "b">>}

Self ==
    [source |-> source, current_page |-> current_page, scale |-> scale,
     mode |-> mode, popup_visible |-> popup_visible, replaced |-> FALSE,
     on_page_change |-> on_page_change,
     selection_state |-> selection_state,
     selectable_chars |-> selectable_chars,
     drawing_state |-> drawing_state, shape_state |-> shape_state,
     search_results |-> search_results, search_index |-> search_index,
     search_query |-> search_query,
     \* the engines whose handlers the call has invoked, in order
     dispatched |-> <<>>,
     \* the texts on_selection_change was called with by the call
     emitted |-> <<>>,
     \* the pages search_text was called on by the call, in order
     searched |-> <<>>,
     \* the strokes the call gave to add_ink, each as its number of points
     saved |-> <<>>,
     \* the page indices on_page_change was called with by the call
     notified |-> <<>>]

Returns(self, value) == [self |-> self, ret |-> value, raised |-> ""]
Raises(self, exception) == [self |-> self, ret |-> None, raised |-> exception]

\* the objects a render pass creates are new: the replaced list is dropped,
\* so they carry the least tag that no character still selected carries
NewRender(self) ==
    LET used == {self.selection_state.selected_chars[i].render :
                    i \in 1..Len(self.selection_state.selected_chars)}
    IN CHOOSE n \in 0..Cardinality(used) :
          n \notin used /\ \A m \in 0..(n - 1) : m \in used

\* a page length times the scale (page lengths are multiples of ten)
Scaled(length, tenths) == (length * tenths) \div 10

\* PageRenderer.build_selectable_chars
build_selectable_chars(self, page_index, offset_x, offset_y, render) ==
    LET chars == extract_chars(self.source[1], page_index) IN
    [i \in 1..Len(chars) |->
        [char |-> chars[i].char,
         x |-> Scaled(chars[i].x, self.scale),
         y |-> Scaled(chars[i].y, self.scale),
         width |-> Scaled(chars[i].width, self.scale),
         height |-> Scaled(chars[i].height, self.scale),
         page_index |-> page_index,
         page_offset_x |-> offset_x, page_offset_y |-> offset_y,
         render |-> render]]

RECURSIVE ContinuousPages(_, _, _, _)
\* the loop of the continuous mode from page i on, y_offset accumulated
ContinuousPages(self, i, y_offset, render) ==
    IF i >= page_count(self.source[1]) THEN <<>>
    ELSE build_selectable_chars(self, i, 0, y_offset, render)
         \o ContinuousPages(self, i + 1,
                y_offset + Scaled(PageSize.height, self.scale) + page_gap, render)

_hide_popup(self) == [self EXCEPT !.popup_visible = FALSE]

_build_content(self) ==
    IF self.source = None THEN self
    ELSE
    LET render == NewRender(self)
        doc == self.source[1]
        selectable ==
            IF self.mode = "single"
            THEN build_selectable_chars(self, self.current_page, 0, 0, render)
            ELSE IF self.mode = "continuous"
            THEN ContinuousPages(self, 0, 0, render)
            ELSE LET left == build_selectable_chars(
                                 self, self.current_page, 0, 0, render)
                     x_offset == Scaled(PageSize.width, self.scale) + page_gap
                 IN IF self.current_page + 1 < page_count(doc)
                    THEN left \o build_selectable_chars(
                             self, self.current_page + 1, x_offset, 0, render)
                    ELSE left
    IN [self EXCEPT !.selectable_chars = set_selectable_chars(selectable),
                    !.replaced = TRUE]

\* _update_content that rebuilds the content over the selection in place
_update_content_keeps_selection(self) == _build_content(_hide_popup(self))

_update_content(self) ==
    _build_content(_hide_popup(
        [self EXCEPT !.selection_state = Selection_clear(@)]))

clear_search(self) ==
    [self EXCEPT !.search_results = <<>>, !.search_index = -1,
                 !.search_query = ""]

\* a Python list subscript: negative indices count from the end
Subscript(list, i) ==
    IF 0 <= i /\ i < Len(list) THEN Some(list[i + 1])
    ELSE IF -Len(list) <= i /\ i < 0 THEN Some(list[Len(list) + i + 1])
    ELSE None

RECURSIVE _on_page_change(_, _)
RECURSIVE set_current_page(_, _)
RECURSIVE goto(_, _)
RECURSIVE _goto_search_result(_, _)
RECURSIVE search(_, _, _)

\* the current_page setter
set_current_page(self, value) ==
    IF self.source # None /\ 0 <= value /\ value < page_count(self.source[1])
    THEN _on_page_change(
             _update_content([self EXCEPT !.current_page = value]), value)
    ELSE self

goto(self, page_index) ==
    IF /\ self.source # None
       /\ 0 <= page_index /\ page_index < page_count(self.source[1])
    THEN set_current_page(self, page_index)
    ELSE self

\* _goto_search_result that changes the page in every mode
_goto_search_result_any_mode(self, index) ==
    IF ~(0 <= index /\ index < Len(self.search_results)) THEN self
    ELSE LET result == self.search_results[index + 1] IN
         IF result.page_index # self.current_page
         THEN goto(self, result.page_index)
         ELSE self

_goto_search_result(self, index) ==
    IF ~(0 <= index /\ index < Len(self.search_results)) THEN self
    ELSE LET result == self.search_results[index + 1] IN
         IF self.mode # "continuous"
            /\ result.page_index # self.current_page
         THEN goto(self, result.page_index)
         ELSE self

RECURSIVE AllResults(_, _, _)
\* the loop over the pages of search, from page_idx on
AllResults(doc, query, page_idx) ==
    IF page_idx >= page_count(doc) THEN <<>>
    ELSE search_text(doc, page_idx, query)
         \o AllResults(doc, query, page_idx + 1)

\* the initial index of search: the first result on or after page start
InitialIndex(results, start) ==
    LET on_or_after == {i \in 1..Len(results) : results[i].page_index >= start}
    IN IF on_or_after = {} THEN 0
       ELSE (CHOOSE i \in on_or_after : \A j \in on_or_after : i <= j) - 1

\* search whose initial index is always 0
search_from_first(self, query, start_page) ==
    IF self.source = None \/ query = ""
    THEN Returns(clear_search(self), Some(<<>>))
    ELSE
    LET found == AllResults(self.source[1], query, 0)
        s1 == [self EXCEPT !.search_query = query, !.search_results = found]
        s2 == IF found # <<>>
              THEN _goto_search_result([s1 EXCEPT !.search_index = 0], 0)
              ELSE [s1 EXCEPT !.search_index = -1]
    IN Returns(s2, Some(s2.search_results))

\* search that returns at once on an empty query, the old results kept
search_empty_returns_early(self, query, start_page) ==
    IF self.source = None \/ query = ""
    THEN Returns(self, Some(<<>>))
    ELSE
    LET found == AllResults(self.source[1], query, 0)
        s1 == [self EXCEPT !.search_query = query, !.search_results = found]
        start == IF start_page # None THEN start_page[1]
                                      ELSE self.current_page
        index == InitialIndex(found, start)
        s2 == IF found # <<>>
              THEN _goto_search_result(
                       [s1 EXCEPT !.search_index = index], index)
              ELSE [s1 EXCEPT !.search_index = -1]
    IN Returns(s2, Some(s2.search_results))

\* search that keeps the index of the previous search
search_keeps_index(self, query, start_page) ==
    IF self.source = None \/ query = ""
    THEN Returns(clear_search(self), Some(<<>>))
    ELSE
    LET found == AllResults(self.source[1], query, 0)
        s1 == [self EXCEPT !.search_query = query, !.search_results = found]
        s2 == IF found # <<>> /\ s1.search_index = -1
              THEN _goto_search_result([s1 EXCEPT !.search_index = 0], 0)
              ELSE s1
    IN Returns(s2, Some(s2.search_results))

search(self, query, start_page) ==
    IF self.source = None \/ query = ""
    THEN Returns(clear_search(self), Some(<<>>))
    ELSE
    LET found == AllResults(self.source[1], query, 0)
        s1 == [self EXCEPT !.search_query = query, !.search_results = found,
                           !.searched = @ \o [i \in 1..page_count(
                                                 self.source[1]) |-> i - 1]]
        start == IF start_page # None THEN start_page[1]
                                      ELSE self.current_page
        index == InitialIndex(found, start)
        s2 == IF found # <<>>
              THEN _goto_search_result(
                       [s1 EXCEPT !.search_index = index], index)
              ELSE [s1 EXCEPT !.search_index = -1]
    IN Returns(s2, Some(s2.search_results))

_on_page_change(self, value) ==
    LET cb == self.on_page_change
        called == [self EXCEPT !.notified = Append(@, value)]
        inner == [called EXCEPT !.on_page_change = <<"none">>]
    IN IF cb[1] = "clear_search" THEN clear_search(called)
       ELSE IF cb[1] = "search"
       THEN [search(inner, cb[2], None).self EXCEPT !.on_page_change = cb]
       ELSE called

\* the value of "return self._search_results[index]"
ReturnResult(self, index) ==
    IF Subscript(self.search_results, index) = None
    THEN Raises(self, "IndexError")
    ELSE Returns(self, Subscript(self.search_results, index))

\* search_next that stops at the last result
search_next_no_wrap(self) ==
    IF self.search_results = <<>> THEN Returns(self, None)
    ELSE
    LET s1 == [self EXCEPT !.search_index =
                               Min(@ + 1, Len(self.search_results) - 1)]
        s2 == _goto_search_result(s1, s1.search_index)
    IN ReturnResult(s2, s2.search_index)

search_next(self) ==
    IF self.search_results = <<>> THEN Returns(self, None)
    ELSE
    LET s1 == [self EXCEPT !.search_index =
                               (@ + 1) % Len(self.search_results)]
        s2 == _goto_search_result(s1, s1.search_index)
    IN ReturnResult(s2, s2.search_index)

\* search_prev that takes the remainder without looking at the results
search_prev_unguarded(self) ==
    IF self.search_results = <<>> THEN Raises(self, "ZeroDivisionError")
    ELSE
    LET s1 == [self EXCEPT !.search_index =
                               (@ - 1) % Len(self.search_results)]
        s2 == _goto_search_result(s1, s1.search_index)
    IN ReturnResult(s2, s2.search_index)

search_prev(self) ==
    IF self.search_results = <<>> THEN Returns(self, None)
    ELSE
    LET s1 == [self EXCEPT !.search_index =
                               (@ - 1) % Len(self.search_results)]
        s2 == _goto_search_result(s1, s1.search_index)
    IN ReturnResult(s2, s2.search_index)

goto_search_result(self, index) ==
    IF self.search_results = <<>>
       \/ ~(0 <= index /\ index < Len(self.search_results))
    THEN Returns(self, None)
    ELSE
    LET s1 == [self EXCEPT !.search_index = index]
        s2 == _goto_search_result(s1, index)
    IN ReturnResult(s2, index)

\* the source, scale and mode setters
set_source(self, value) ==
    _update_content([self EXCEPT !.source = value, !.current_page = 0])

set_scale(self, value) ==
    _update_content([self EXCEPT !.scale = Max(1, Min(50, value))])

set_mode(self, value) ==
    IF self.mode # value THEN _update_content([self EXCEPT !.mode = value])
    ELSE self

\* the page navigation, selection, annotation and drawing methods
next_page(self) ==
    IF self.source # None
       /\ self.current_page < page_count(self.source[1]) - 1
    THEN set_current_page(self, self.current_page + 1)
    ELSE self

previous_page(self) ==
    IF self.source # None /\ self.current_page > 0
    THEN set_current_page(self, self.current_page - 1)
    ELSE self

clear_selection(self) ==
    _hide_popup([self EXCEPT !.selection_state = Selection_clear(@)])

\* highlight_selection, underline_selection, strikethrough_selection and
\* squiggly_selection; the annotation itself goes to the document
_add_annotation(self) ==
    IF self.source = None \/ self.selection_state.selected_chars = <<>>
    THEN self
    ELSE _update_content(clear_selection(self))

add_note_at_selection(self) ==
    IF self.source = None \/ self.selection_state.selected_chars = <<>>
    THEN self
    ELSE _update_content(clear_selection(self))

copy_selection(self) == clear_selection(self)

\* enable_drawing that leaves the shape engine as it is
enable_drawing_keeps_shapes(self, color, width) ==
    [self EXCEPT !.drawing_state = Drawing_enable(@, color, width)]

enable_drawing(self, color, width) ==
    [self EXCEPT !.shape_state = Shape_disable(@),
                 !.drawing_state = Drawing_enable(@, color, width)]

disable_drawing(self) ==
    [self EXCEPT !.drawing_state = Drawing_disable(@)]

enable_shape_drawing(self, shape_type, stroke_color, fill_color, stroke_width) ==
    [self EXCEPT !.drawing_state = Drawing_disable(@),
                 !.shape_state = Shape_enable(@, shape_type, stroke_color,
                                              fill_color, stroke_width)]

disable_shape_drawing(self) ==
    [self EXCEPT !.shape_state = Shape_disable(@)]

\* _show_popup that shows the popup whatever is selected
_show_popup_always(self) == [self EXCEPT !.popup_visible = TRUE]

_show_popup(self) ==
    IF self.selection_state.selected_chars = <<>> THEN self
    ELSE [self EXCEPT !.popup_visible = TRUE]

\* _save_ink_annotation that saves every stroke that has a point
_save_ink_annotation_any_path(self) ==
    LET stroke == end_stroke(self.drawing_state)
        s1 == [self EXCEPT !.drawing_state = stroke.st]
    IN IF self.source = None \/ Len(stroke.ret) < 1 THEN s1
       ELSE _update_content(
                [s1 EXCEPT !.saved = Append(@, Len(stroke.ret))])

_save_ink_annotation(self) ==
    LET stroke == end_stroke(self.drawing_state)
        s1 == [self EXCEPT !.drawing_state = stroke.st]
    IN IF self.source = None \/ Len(stroke.ret) < 2 THEN s1
       ELSE _update_content(
                [s1 EXCEPT !.saved = Append(@, Len(stroke.ret))])

_save_shape_annotation(self) ==
    LET shape == end_shape(self.shape_state)
        s1 == [self EXCEPT !.shape_state = shape.st]
    IN IF self.source = None \/ shape.ret = None THEN s1
       ELSE IF shape.ret[1][1] = "text" THEN s1
       ELSE _update_content(s1)

\* the call hands a pan event to an engine
Dispatch(self, engine) ==
    [self EXCEPT !.dispatched = Append(@, engine)]

\* the gesture handlers; the pages of the documents carry no links
_on_tap(self, x, y) ==
    IF ~self.drawing_state.enabled /\ ~Shape_enabled(self.shape_state)
    THEN clear_selection(self)
    ELSE self

_on_pan_start(self, x, y) ==
    IF self.drawing_state.enabled
    THEN Dispatch([self EXCEPT !.drawing_state = start_stroke(@, x, y)],
                  "ink")
    ELSE IF Shape_enabled(self.shape_state)
    THEN Dispatch([self EXCEPT !.shape_state = start_shape(@, x, y)],
                  "shape")
    ELSE _hide_popup(Dispatch(
             [self EXCEPT !.selection_state = start_selection(@, x, y)],
             "selection"))

_on_pan_update(self, x, y) ==
    IF self.drawing_state.enabled
    THEN Dispatch([self EXCEPT !.drawing_state =
                                   add_point(@, x, y, DefaultMinDistance)],
                  "ink")
    ELSE IF Shape_enabled(self.shape_state)
    THEN Dispatch([self EXCEPT !.shape_state = update_shape(@, x, y)],
                  "shape")
    ELSE Dispatch([self EXCEPT !.selection_state =
                       update_selection(@, self.selectable_chars, x, y)],
                  "selection")

_on_pan_end(self) ==
    IF self.drawing_state.enabled
    THEN _save_ink_annotation(Dispatch(self, "ink"))
    ELSE IF Shape_enabled(self.shape_state)
    THEN _save_shape_annotation(Dispatch(self, "shape"))
    ELSE LET ended == end_selection(self.selection_state)
         IN _show_popup(Dispatch(
                [self EXCEPT !.selection_state = ended.st,
                             !.emitted = @ \o ended.emitted],
                "selection"))

(***************************************************************************)
(* The viewer driven call by call.                                         *)
(***************************************************************************)
Commit(self) ==
    /\ source' = self.source
    /\ current_page' = self.current_page
    /\ scale' = self.scale
    /\ mode' = self.mode
    /\ popup_visible' = self.popup_visible
    /\ replaced' = IF self.replaced
                   THEN Some([selected |-> Len(selection_state.selected_chars),
                              is_selecting |-> selection_state.is_selecting])
                   ELSE None
    /\ on_page_change' = self.on_page_change
    /\ returned' = returned
    /\ emitted' = self.emitted
    /\ drag' = None
    /\ selection_state' = self.selection_state
    /\ selectable_chars' = self.selectable_chars
    /\ drawing_state' = self.drawing_state
    /\ shape_state' = self.shape_state
    /\ search_results' = self.search_results
    /\ search_index' = self.search_index
    /\ search_query' = self.search_query

\* a search call, the number of results it started from, the pages it
\* called search_text on and the page indices it called on_page_change with
SearchCall(op, args, self) ==
    [op |-> op, args |-> args, pre |-> Len(search_results),
     pages |-> self.searched, notified |-> self.notified]

StartPages == {None} \cup {Some(n) : n \in 0..(NumPages - 1)}

Search ==
    \E query \in Queries, start_page \in StartPages :
        LET r == search(Self, query, start_page) IN
        /\ Commit(r.self)
        /\ ret' = r.ret /\ raised' = r.raised
        /\ last' = SearchCall("search", <<query, start_page>>, r.self)
        /\ UNCHANGED <<last_start, last_update>>

SearchNext ==
    LET r == search_next(Self) IN
    /\ Commit(r.self)
    /\ ret' = r.ret /\ raised' = r.raised
    /\ last' = SearchCall("search_next", <<>>, r.self)
    /\ UNCHANGED <<last_start, last_update>>

SearchPrev ==
    LET r == search_prev(Self) IN
    /\ Commit(r.self)
    /\ ret' = r.ret /\ raised' = r.raised
    /\ last' = SearchCall("search_prev", <<>>, r.self)
    /\ UNCHANGED <<last_start, last_update>>

GotoSearchResult ==
    \E index \in -1..NumPages :
        LET r == goto_search_result(Self, index) IN
        /\ Commit(r.self)
        /\ ret' = r.ret /\ raised' = r.raised
        /\ last' = SearchCall("goto_search_result", <<index>>, r.self)
        /\ UNCHANGED <<last_start, last_update>>

ClearSearch ==
    /\ Commit(clear_search(Self))
    /\ ret' = None /\ raised' = ""
    /\ last' = SearchCall("clear_search", <<>>, clear_search(Self))
    /\ UNCHANGED <<last_start, last_update>>

\* a viewer call that is no search call
ViewerCall(self) ==
    /\ Commit(self)
    /\ ret' = None /\ raised' = ""
    /\ last' = Call("viewer", <<>>)

\* a pan event: the engines it was handed to and the strokes it gave to
\* the document are recorded
PanCall(self, event) ==
    /\ Commit(self)
    /\ ret' = None /\ raised' = ""
    /\ last' = [op |-> "pan", args |-> self.dispatched, event |-> event,
                saved |-> self.saved]

SetSource ==
    \E value \in {None} \cup {Some(doc) : doc \in Docs} :
        /\ ViewerCall(set_source(Self, value))
        /\ UNCHANGED <<last_start, last_update>>

SetMode ==
    \E value \in Modes :
        /\ ViewerCall(set_mode(Self, value))
        /\ UNCHANGED <<last_start, last_update>>

SetScale ==
    \E value \in Scales :
        /\ ViewerCall(set_scale(Self, value))
        /\ UNCHANGED <<last_start, last_update>>

Goto ==
    \E page_index \in -1..NumPages :
        /\ ViewerCall(goto(Self, page_index))
        /\ UNCHANGED <<last_start, last_update>>

\* pointer positions: on the first character of a page and on the second
PointerPositions == {<<5, 5>>, <<15, 8>>}
DrawnShapes == {"rectangle", "text"}

NextPage ==
    /\ ViewerCall(next_page(Self))
    /\ UNCHANGED <<last_start, last_update>>

PreviousPage ==
    /\ ViewerCall(previous_page(Self))
    /\ UNCHANGED <<last_start, last_update>>

ClearSelection ==
    /\ ViewerCall(clear_selection(Self))
    /\ UNCHANGED <<last_start, last_update>>

AddAnnotation ==
    /\ ViewerCall(_add_annotation(Self))
    /\ UNCHANGED <<last_start, last_update>>

AddNoteAtSelection ==
    /\ ViewerCall(add_note_at_selection(Self))
    /\ UNCHANGED <<last_start, last_update>>

CopySelection ==
    /\ ViewerCall(copy_selection(Self))
    /\ UNCHANGED <<last_start, last_update>>

EnableDrawing ==
    /\ ViewerCall(enable_drawing(Self, "black", 2))
    /\ last_start' = None /\ last_update' = None

DisableDrawing ==
    /\ ViewerCall(disable_drawing(Self))
    /\ UNCHANGED <<last_start, last_update>>

EnableShapeDrawing ==
    \E shape_type \in DrawnShapes :
        /\ ViewerCall(enable_shape_drawing(Self, shape_type, "black", None, 2))
        /\ last_start' = None /\ last_update' = None

DisableShapeDrawing ==
    /\ ViewerCall(disable_shape_drawing(Self))
    /\ last_start' = None /\ last_update' = None

\* the gesture goes to the shape engine
ToShapes == ~drawing_state.enabled /\ Shape_enabled(shape_state)

OnTap ==
    \E p \in PointerPositions :
        /\ ViewerCall(_on_tap(Self, p[1], p[2]))
        /\ UNCHANGED <<last_start, last_update>>

OnPanStart ==
    \E p \in PointerPositions :
        /\ PanCall(_on_pan_start(Self, p[1], p[2]), "start")
        /\ IF ToShapes
           THEN last_start' = Some(p) /\ last_update' = None
           ELSE UNCHANGED <<last_start, last_update>>

OnPanUpdate ==
    \E p \in PointerPositions :
        /\ PanCall(_on_pan_update(Self, p[1], p[2]), "update")
        /\ Len(drawing_state'.current_path) <= MaxPath
        /\ IF ToShapes /\ shape_state.is_drawing
           THEN last_update' = Some(p) /\ UNCHANGED last_start
           ELSE UNCHANGED <<last_start, last_update>>

OnPanEnd ==
    /\ PanCall(_on_pan_end(Self), "end")
    /\ IF ToShapes
       THEN last_start' = None /\ last_update' = None
       ELSE UNCHANGED <<last_start, last_update>>

(***************************************************************************)
(* The arrow head (viewer.py, _create_arrow_head).  The lines drawn here   *)
(* run along an axis, so every angle is a multiple of 30 degrees and every *)
(* cosine is a multiple of 1/2 or of sqrt(3)/2: the number (a + b*sqrt(3)) *)
(* / 2 is held as <<a, b>>, and an angle in degrees.                       *)
(***************************************************************************)
\* math.atan2 of a line along an axis; atan2(0, 0) is 0
atan2(dy, dx) ==
    IF dy = 0 THEN (IF dx >= 0 THEN 0 ELSE 180)
    ELSE IF dy > 0 THEN 90 ELSE -90

\* math.cos of a multiple of 30 degrees
cos(degrees) ==
    LET d == (degrees % 360) \div 30 IN
    << <<2, 0>>, <<0, 1>>, <<1, 0>>, <<0, 0>>, <<-1, 0>>, <<0, -1>>,
       <<-2, 0>>, <<0, -1>>, <<-1, 0>>, <<0, 0>>, <<1, 0>>, <<0, 1>> >>[d + 1]

sin(degrees) == cos(degrees - 90)

\* v - length * c, for a whole number v and a cosine or sine c
Back(v, length, c) == <<2 * v - length * c[1], -(length * c[2])>>

\* the arrow head whose length is four stroke widths, however thin the line
_create_arrow_head_by_width(self, x1, y1, x2, y2, color, stroke_width) ==
    LET angle == atan2(y2 - y1, x2 - x1)
        arrow_length == stroke_width * 4
        arrow_angle == 30
    IN Returns(self, Some([color |-> color,
           path |-> << <<<<2 * x2, 0>>, <<2 * y2, 0>>>>,
                       <<Back(x2, arrow_length, cos(angle - arrow_angle)),
                         Back(y2, arrow_length, sin(angle - arrow_angle))>>,
                       <<Back(x2, arrow_length, cos(angle + arrow_angle)),
                         Back(y2, arrow_length, sin(angle + arrow_angle))>> >>]))

\* the filled path MoveTo(x2, y2), LineTo(ax1, ay1), LineTo(ax2, ay2), Close
_create_arrow_head(self, x1, y1, x2, y2, color, stroke_width) ==
    LET angle == atan2(y2 - y1, x2 - x1)
        arrow_length == Max(12, stroke_width * 4)
        arrow_angle == 30
    IN Returns(self, Some([color |-> color,
           path |-> << <<<<2 * x2, 0>>, <<2 * y2, 0>>>>,
                       <<Back(x2, arrow_length, cos(angle - arrow_angle)),
                         Back(y2, arrow_length, sin(angle - arrow_angle))>>,
                       <<Back(x2, arrow_length, cos(angle + arrow_angle)),
                         Back(y2, arrow_length, sin(angle + arrow_angle))>> >>]))

\* the ends of the lines drawn, and the stroke widths (12 > 4 * 2, 12 < 4 * 4)
ArrowPoints == {<<0, 0>>, <<20, 0>>, <<0, 20>>, <<20, 20>>}
ArrowWidths == {2, 4}

CreateArrowHead ==
    \E p \in ArrowPoints, q \in ArrowPoints, color \in Colors,
       stroke_width \in ArrowWidths :
        /\ p[1] = q[1] \/ p[2] = q[2]
        /\ LET r == _create_arrow_head(Self, p[1], p[2], q[1], q[2],
                                       color, stroke_width)
           IN /\ Commit(r.self)
              /\ ret' = r.ret /\ raised' = r.raised
        /\ last' = Call("_create_arrow_head",
                        <<p[1], p[2], q[1], q[2], color, stroke_width>>)
        /\ UNCHANGED <<last_start, last_update>>

(***************************************************************************)
(* Ink smoothing (viewer.py and rendering/renderer.py,                     *)
(* _catmull_rom_to_bezier).  A point given to the spline is held in tenths *)
(* and a coordinate of the path it returns in sixtieths, so that a scale   *)
(* in tenths and the factor tension / 3 = 0.5 / 3 stay whole numbers.      *)
(***************************************************************************)
MoveTo(x, y) == [op |-> "MoveTo", x |-> x, y |-> y]
LineTo(x, y) == [op |-> "LineTo", x |-> x, y |-> y]

\* a segment that ends at its second control point
CubicTo_at_control(p0, p1, p2, p3) ==
    [op |-> "CubicTo",
     cp1x |-> 6 * p1[1] + (p2[1] - p0[1]),
     cp1y |-> 6 * p1[2] + (p2[2] - p0[2]),
     cp2x |-> 6 * p2[1] - (p3[1] - p1[1]),
     cp2y |-> 6 * p2[2] - (p3[2] - p1[2]),
     x |-> 6 * p2[1] - (p3[1] - p1[1]),
     y |-> 6 * p2[2] - (p3[2] - p1[2])]

\* cv.Path.CubicTo(cp1x, cp1y, cp2x, cp2y, p2[0], p2[1]) of one round of
\* the loop
CubicTo(p0, p1, p2, p3) ==
    [op |-> "CubicTo",
     cp1x |-> 6 * p1[1] + (p2[1] - p0[1]),
     cp1y |-> 6 * p1[2] + (p2[2] - p0[2]),
     cp2x |-> 6 * p2[1] - (p3[1] - p1[1]),
     cp2y |-> 6 * p2[2] - (p3[2] - p1[2]),
     x |-> 6 * p2[1],
     y |-> 6 * p2[2]]

\* the body the two variants share, on points in tenths
Spline(points) ==
    IF Len(points) < 2 THEN <<>>
    ELSE IF Len(points) = 2
    THEN <<MoveTo(6 * points[1][1], 6 * points[1][2]),
           LineTo(6 * points[2][1], 6 * points[2][2])>>
    ELSE LET pts == <<points[1]>> \o points \o <<points[Len(points)]>>
         IN <<MoveTo(6 * points[1][1], 6 * points[1][2])>>
            \o [k \in 1..(Len(pts) - 3) |->
                   CubicTo(pts[k], pts[k + 1], pts[k + 2], pts[k + 3])]

\* PdfViewer._catmull_rom_to_bezier(points)
Viewer_catmull_rom_to_bezier(points) ==
    Spline([k \in 1..Len(points) |-> <<10 * points[k][1], 10 * points[k][2]>>])

\* PageRenderer._catmull_rom_to_bezier(points, scale), scale in tenths
Renderer_catmull_rom_to_bezier(points, scale_arg) ==
    Spline([k \in 1..Len(points) |->
               <<points[k][1] * scale_arg, points[k][2] * scale_arg>>])

\* the point lists given to the smoothing: up to MaxPath + 1 points, each one
\* of three that are not on a line
SplinePoints == {<<0, 0>>, <<3, 4>>, <<6, 0>>}

RECURSIVE PointLists(_)
PointLists(n) ==
    IF n = 0 THEN {<<>>}
    ELSE PointLists(n - 1)
         \cup {Append(l, point) :
                  l \in {m \in PointLists(n - 1) : Len(m) = n - 1},
                  point \in SplinePoints}

ViewerSmooth ==
    \E points \in PointLists(MaxPath + 1) :
        /\ ret' = Viewer_catmull_rom_to_bezier(points)
        /\ raised' = ""
        /\ last' = Call("Viewer_catmull_rom_to_bezier", <<points>>)
        /\ UNCHANGED <<shape_vars, ink_vars, sel_vars, view_vars, search_vars>>

RendererSmooth ==
    \E points \in PointLists(MaxPath + 1), scale_arg \in {10, 20} :
        /\ ret' = Renderer_catmull_rom_to_bezier(points, scale_arg)
        /\ raised' = ""
        /\ last' = Call("Renderer_catmull_rom_to_bezier",
                        <<points, scale_arg>>)
        /\ UNCHANGED <<shape_vars, ink_vars, sel_vars, view_vars, search_vars>>

(***************************************************************************)
(* The state after PdfViewer.__init__.                                     *)
(***************************************************************************)
Init ==
    /\ shape_state = ShapeDrawingState
    /\ drawing_state = DrawingState
    /\ selection_state = SelectionState
    /\ selectable_chars = <<>>
    /\ source = None
    /\ current_page = 0
    /\ scale = 10
    /\ mode = "single"
    /\ popup_visible = FALSE
    /\ replaced = None
    /\ on_page_change \in Callbacks
    /\ search_results = <<>>
    /\ search_index = -1
    /\ search_query = ""
    /\ ret = None
    /\ raised = ""
    /\ last = Call("__init__", <<>>)
    /\ returned = None
    /\ emitted = <<>>
    /\ drag = None
    /\ last_start = None
    /\ last_update = None

NextShape ==
    \/ ShapeEnable
    \/ ShapeDisable
    \/ StartShape
    \/ UpdateShape
    \/ EndShape
    \/ CancelShape

\* An engine driven on its own belongs to no viewer that would call back.
InitEngine == Init /\ on_page_change = <<"none">>

SpecShape == InitEngine /\ [][NextShape]_vars

NextInk ==
    \/ DrawingEnable
    \/ DrawingDisable
    \/ StartStroke
    \/ AddPoint
    \/ EndStroke
    \/ ClearPath

SpecInk == InitEngine /\ [][NextInk]_vars

\* The ink engine and the shape engine are separate objects: one of the two
\* is driven, the other stays as constructed.
NextEngine ==
    \/ shape_state = ShapeDrawingState /\ NextInk
    \/ drawing_state = DrawingState /\ NextShape

SpecEngine == InitEngine /\ [][NextEngine]_vars

NextSelection ==
    \/ SetSelectableChars
    \/ StartSelection
    \/ UpdateSelection
    \/ EndSelection
    \/ SelectionClear

SpecSelection == InitEngine /\ [][NextSelection]_vars

NextLineKey == LineKeys

SpecLineKey == InitEngine /\ [][NextLineKey]_vars

NextHighlight ==
    \/ SetSelectableChars
    \/ StartSelection
    \/ UpdateSelection
    \/ EndSelection
    \/ SelectionClear
    \/ GetHighlightRects
    \/ GetAnnotationRects

SpecHighlight == InitEngine /\ [][NextHighlight]_vars

NextSmooth ==
    \/ ViewerSmooth
    \/ RendererSmooth

SpecSmooth == InitEngine /\ [][NextSmooth]_vars

\* arrow heads are made while the viewer is being set up and used
NextArrow ==
    \/ CreateArrowHead
    \/ SetScale
    \/ EnableShapeDrawing

NextSearch ==
    \/ Search
    \/ SearchNext
    \/ SearchPrev
    \/ GotoSearchResult
    \/ ClearSearch
    \/ SetSource
    \/ SetMode
    \/ Goto

SpecSearch == Init /\ [][NextSearch]_vars

NextViewer ==
    \/ SetSource
    \/ SetMode
    \/ SetScale
    \/ Goto
    \/ NextPage
    \/ PreviousPage
    \/ ClearSelection
    \/ AddAnnotation
    \/ AddNoteAtSelection
    \/ CopySelection
    \/ EnableDrawing
    \/ DisableDrawing
    \/ EnableShapeDrawing
    \/ DisableShapeDrawing
    \/ OnTap
    \/ OnPanStart
    \/ OnPanUpdate
    \/ OnPanEnd

\* The application makes no search of its own here, so a callback that
\* clears the search would find nothing to clear: the callbacks are none and
\* the one that searches.
InitViewer == Init /\ on_page_change # <<"clear_search">>

SpecViewer == InitViewer /\ [][NextViewer]_vars

SpecArrow == InitViewer /\ [][NextArrow]_vars

(***************************************************************************)
(* C8: in every reachable state of the shape engine, is_drawing implies    *)
(* that the start point and the end point are both set.                    *)
(***************************************************************************)
C8_DrawingHasPoints ==
    shape_state.is_drawing =>
        /\ shape_state.start_x # None /\ shape_state.start_y # None
        /\ shape_state.end_x # None /\ shape_state.end_y # None

\* a drag in progress whose end point has moved away from its start point
C8_Witness ==
    /\ shape_state.is_drawing
    /\ last.op = "update_shape"
    /\ shape_state.end_x # shape_state.start_x

(***************************************************************************)
(* C9: end_shape called while drawing returns the active shape type, the   *)
(* point of the most recent start_shape and the point of the most recent   *)
(* update_shape since then (the start point if there was none), and leaves *)
(* is_drawing false, both points unset and the type, colours and width     *)
(* unchanged; called while not drawing it returns nothing and changes      *)
(* nothing.                                                                *)
(***************************************************************************)
C9_EndShapeResult ==
    [][last'.op = "end_shape" =>
        IF shape_state.is_drawing
        THEN /\ last_start # None
             /\ ret' = Some(<<shape_state.shape_type,
                              last_start[1][1], last_start[1][2],
                              (IF last_update = None THEN last_start[1]
                                                     ELSE last_update[1])[1],
                              (IF last_update = None THEN last_start[1]
                                                     ELSE last_update[1])[2]>>)
             /\ shape_state' =
                  [shape_state EXCEPT !.start_x = None, !.start_y = None,
                                      !.end_x = None, !.end_y = None,
                                      !.is_drawing = FALSE]
        ELSE ret' = None /\ shape_state' = shape_state]_vars

\* end_shape has returned a shape whose end point differs from its start
C9_Witness ==
    /\ last.op = "end_shape"
    /\ ret # None
    /\ <<ret[1][2], ret[1][3]>> # <<ret[1][4], ret[1][5]>>
    /\ ~shape_state.is_drawing

(***************************************************************************)
(* C10: every two consecutive points of the current ink path are at        *)
(* Euclidean distance >= minDistance, and an add_point nearer than that to *)
(* the last recorded point leaves the path as it was.                      *)
(***************************************************************************)
C10_PathThinned ==
    [][LET path == drawing_state.current_path
           path2 == drawing_state'.current_path
       IN /\ \A i \in 1..(Len(path2) - 1) :
                 (path2[i+1][1] - path2[i][1]) * (path2[i+1][1] - path2[i][1])
               + (path2[i+1][2] - path2[i][2]) * (path2[i+1][2] - path2[i][2])
                 >= DefaultMinDistance * DefaultMinDistance
          /\ (/\ last'.op = "add_point"
              /\ path # <<>>
              /\ LET p == path[Len(path)]
                     q == last'.args
                 IN (q[1] - p[1]) * (q[1] - p[1])
                  + (q[2] - p[2]) * (q[2] - p[2])
                    < DefaultMinDistance * DefaultMinDistance)
             => drawing_state' = drawing_state]_vars

\* a path of three points whose last add_point was dropped: the point
\* received is not the last point recorded
C10_Witness ==
    /\ last.op = "add_point"
    /\ Len(drawing_state.current_path) = 3
    /\ drawing_state.current_path[3] # last.args

(***************************************************************************)
(* The drag rectangle and the characters it hits, as C3 and C4 state them. *)
(***************************************************************************)
DragX1 == Min(selection_state.start[1][1], selection_state.end[1][1])
DragY1 == Min(selection_state.start[1][2], selection_state.end[1][2])
DragX2 == Max(selection_state.start[1][1], selection_state.end[1][1])
DragY2 == Max(selection_state.start[1][2], selection_state.end[1][2])

\* the indices of the characters whose box has open intersection with the drag
DirectHits ==
    {i \in 1..Len(selectable_chars) :
        LET c == selectable_chars[i] IN
        /\ DragX1 < OffsetX(c) + c.width /\ DragX2 > OffsetX(c)
        /\ DragY1 < OffsetY(c) + c.height /\ DragY2 > OffsetY(c)}

KeyOf(i) == LineKey(OffsetY(selectable_chars[i]))
DirectKeys == {KeyOf(i) : i \in DirectHits}
SelectedSet ==
    {selection_state.selected_chars[i] :
        i \in 1..Len(selection_state.selected_chars)}
AfterUpdate == last.op = "update_selection" /\ selection_state.is_selecting

(***************************************************************************)
(* C3: when the directly hit characters fall in two or more line buckets,  *)
(* update_selection selects exactly the characters of the whole list on    *)
(* the first line from firstSelectedX - 1 on, on the last line up to       *)
(* lastSelectedX + 1, and all those strictly between, where firstSelectedX *)
(* is the least x+offset of the hit characters of the first line and       *)
(* lastSelectedX the greatest x+offset+width of those of the last line.    *)
(***************************************************************************)
C3_MultiLineExtension ==
    (AfterUpdate /\ Cardinality(DirectKeys) >= 2) =>
        LET firstKey == CHOOSE k \in DirectKeys : \A m \in DirectKeys : k <= m
            lastKey == CHOOSE k \in DirectKeys : \A m \in DirectKeys : k >= m
            firsts == {OffsetX(selectable_chars[i]) :
                          i \in {j \in DirectHits : KeyOf(j) = firstKey}}
            lasts == {OffsetX(selectable_chars[i]) + selectable_chars[i].width :
                          i \in {j \in DirectHits : KeyOf(j) = lastKey}}
            firstSelectedX == CHOOSE v \in firsts : \A w \in firsts : v <= w
            lastSelectedX == CHOOSE v \in lasts : \A w \in lasts : v >= w
            expected ==
                {i \in 1..Len(selectable_chars) :
                    LET c == selectable_chars[i] IN
                    \/ KeyOf(i) = firstKey /\ OffsetX(c) >= firstSelectedX - 1
                    \/ KeyOf(i) = lastKey
                         /\ OffsetX(c) + c.width <= lastSelectedX + 1
                    \/ firstKey < KeyOf(i) /\ KeyOf(i) < lastKey}
        IN /\ SelectedSet = {selectable_chars[i] : i \in expected}
           /\ Len(selection_state.selected_chars) = Cardinality(expected)

(***************************************************************************)
(* C4: when the directly hit characters share one line bucket,             *)
(* update_selection selects exactly the characters whose box has open      *)
(* intersection with the drag rectangle: no other character of the line,   *)
(* and no character that only touches the rectangle on an edge.            *)
(***************************************************************************)
C4_SingleLineExact ==
    (AfterUpdate /\ Cardinality(DirectKeys) = 1) =>
        /\ SelectedSet = {selectable_chars[i] : i \in DirectHits}
        /\ Len(selection_state.selected_chars) = Cardinality(DirectHits)

\* a single-line drag that hits a character, touches another of the same
\* line on its edge only and leaves that one out
C4_Witness ==
    /\ AfterUpdate
    /\ Cardinality(DirectKeys) = 1
    /\ \E i \in 1..Len(selectable_chars) :
          LET c == selectable_chars[i] IN
          /\ i \notin DirectHits
          /\ KeyOf(i) \in DirectKeys
          /\ DragX1 = OffsetX(c) + c.width
          /\ DragY1 < OffsetY(c) + c.height /\ DragY2 > OffsetY(c)
          /\ c \notin SelectedSet

(***************************************************************************)
(* Search navigation.                                                      *)
(***************************************************************************)
NavigationOps == {"search_next", "search_prev", "goto_search_result"}
NoReentry == <<"none">>

\* C1: after any sequence of search, search_next, search_prev,
\* goto_search_result and clear_search calls the search index is -1 exactly
\* when there are no results, and is otherwise a valid index into them.
C1_SearchIndexValid ==
    IF search_results = <<>> THEN search_index = -1
    ELSE 0 <= search_index /\ search_index < Len(search_results)

\* a search has just replaced a longer result list by a shorter, non-empty one
C1_Witness ==
    /\ last.op = "search"
    /\ search_results # <<>>
    /\ Len(search_results) < last.pre

C6_WitnessWrap ==
    /\ last.op = "search"
    /\ on_page_change = NoReentry
    /\ last.args[2] # None
    /\ search_results # <<>>
    /\ search_index = 0
    /\ \A i \in 1..Len(search_results) :
           search_results[i].page_index < last.args[2][1]

\* C7: search_next, search_prev and goto_search_result never fail, and what
\* they return is the result at the final index, also when the page-change
\* callback clears the search or starts a new one during the call.
C7_NavigationNeverFails ==
    last.op \in NavigationOps =>
        /\ raised = ""
        /\ ret # None =>
              /\ 0 <= search_index /\ search_index < Len(search_results)
              /\ ret = Some(search_results[search_index + 1])

(***************************************************************************)
(* C2: in the viewer a call that replaces the selectable characters leaves *)
(* the selection cleared, with no drag in progress; so in every reachable  *)
(* state every selected character is one of the current selectable         *)
(* characters.                                                             *)
(***************************************************************************)
C2_SelectionInCurrentChars ==
    /\ \A i \in 1..Len(selection_state.selected_chars) :
          \E j \in 1..Len(selectable_chars) :
              selection_state.selected_chars[i] = selectable_chars[j]
    /\ replaced # None =>
          /\ selection_state.selected_chars = <<>>
          /\ ~selection_state.is_selecting

\* the page under a drag that had selected characters has been replaced
C2_Witness ==
    /\ replaced # None
    /\ replaced[1].selected > 0
    /\ replaced[1].is_selecting
    /\ selectable_chars # <<>>
    /\ selection_state = SelectionState

(***************************************************************************)
(* C11 as claimed: end_stroke on a current path of fewer than two points   *)
(* returns nothing.                                                        *)
(***************************************************************************)
C11_ShortStrokeReturnsNothing ==
    [][(last'.op = "end_stroke" /\ Len(drawing_state.current_path) < 2)
       => ret' = None]_vars

(***************************************************************************)
(* C11 as amended: end_stroke on a current path of fewer than two points   *)
(* returns that path as it is, empty or holding the one point of           *)
(* start_stroke, and leaves the current path empty.                        *)
(***************************************************************************)
C11_ShortStrokeReturned ==
    [][(last'.op = "end_stroke" /\ Len(drawing_state.current_path) < 2)
       => /\ ret' = drawing_state.current_path
          /\ drawing_state'.current_path = <<>>]_vars

\* end_stroke has returned the one point of a start_stroke
C11_Witness ==
    /\ last.op = "end_stroke"
    /\ Len(ret) = 1
    /\ drawing_state.current_path = <<>>

(***************************************************************************)
(* C12: end_stroke returns the recorded points in recording order and      *)
(* leaves the current path empty and enabled, colour and width as they     *)
(* were; no later call adds a point to the list it returned.               *)
(***************************************************************************)
C12_StrokeHandedOver ==
    [][/\ last'.op = "end_stroke" =>
            /\ ret' = drawing_state.current_path
            /\ returned' # None
            /\ returned'[1].len = Len(drawing_state.current_path)
            /\ drawing_state' = [drawing_state EXCEPT !.current_path = <<>>]
       /\ (last'.op # "end_stroke" /\ returned # None) =>
            /\ returned' # None
            /\ returned'[1].len = returned[1].len]_vars

\* a stroke of three points was returned and another stroke is being recorded
C12_Witness ==
    /\ returned # None
    /\ returned[1].len = 3
    /\ last.op = "add_point"
    /\ Len(drawing_state.current_path) = 2

(***************************************************************************)
(* C13: ink mode and shape mode are never both enabled, and each pan       *)
(* start, update or end event is handed to exactly one engine: the ink     *)
(* engine if ink mode is enabled, else the shape engine if shape mode is   *)
(* enabled, else the selection engine.                                     *)
(***************************************************************************)
C13_OneEnginePerPan ==
    [][/\ ~(drawing_state'.enabled /\ Shape_enabled(shape_state'))
       /\ last'.op = "pan" =>
            last'.args = IF drawing_state.enabled THEN <<"ink">>
                         ELSE IF Shape_enabled(shape_state) THEN <<"shape">>
                         ELSE <<"selection">>]_vars

\* a pan event went to the shape engine after ink mode had been replaced by
\* shape mode
C13_Witness ==
    /\ last.op = "pan" /\ last.args = <<"shape">>
    /\ shape_state.is_drawing
    /\ ~drawing_state.enabled

\* a pan event went to the ink engine
C13_WitnessInk ==
    /\ last.op = "pan" /\ last.args = <<"ink">>
    /\ Len(drawing_state.current_path) = 2
    /\ ~Shape_enabled(shape_state)

(***************************************************************************)
(* C14: update_selection called while is_selecting is false leaves the     *)
(* whole selection state as it was, so a selection that end_selection has  *)
(* frozen keeps its selected characters until the next start_selection or  *)
(* clear.                                                                  *)
(***************************************************************************)
C14_FrozenSelection ==
    [][(~selection_state.is_selecting
        /\ last'.op \notin {"start_selection", "Selection_clear"})
       => selection_state' = selection_state]_vars

\* update_selection was called, at a point the drag did not end on, on a
\* selection that end_selection had frozen
C14_Witness ==
    /\ last.op = "update_selection"
    /\ ~selection_state.is_selecting
    /\ selection_state.selected_chars # <<>>
    /\ selection_state.end # Some(<<last.args[1], last.args[2]>>)

\* update_selection was called before any start_selection
C14_WitnessIdle ==
    /\ last.op = "update_selection"
    /\ selection_state = SelectionState
    /\ selectable_chars # <<>>

(***************************************************************************)
(* C15: end_selection, on a handler that was given a selection-change      *)
(* callback, sets is_selecting to false and calls the callback once if     *)
(* some character is selected and not at all if none is, passing the       *)
(* selected text of that moment; start_selection, update_selection and     *)
(* clear never call it.                                                    *)
(***************************************************************************)
C15_CallbackOnEnd ==
    [][/\ last'.op = "end_selection" =>
            /\ ~selection_state'.is_selecting
            /\ Len(emitted') = (IF selection_state.selected_chars # <<>>
                                THEN 1 ELSE 0)
            /\ \A i \in 1..Len(emitted') :
                   emitted'[i] = selected_text(selection_state')
       /\ last'.op \in {"start_selection", "update_selection",
                        "Selection_clear"} => emitted' = <<>>]_vars

\* end_selection passed a text of two lines to the callback
C15_Witness ==
    /\ last.op = "end_selection"
    /\ Len(emitted) = 1
    /\ \E k \in 1..Len(emitted[1]) : emitted[1][k] = "\n"

\* end_selection ended a drag that selected nothing, without a call
C15_WitnessEmpty ==
    /\ last.op = "end_selection"
    /\ selection_state.start # None
    /\ selection_state.selected_chars = <<>>
    /\ emitted = <<>>

(***************************************************************************)
(* C16: when end_selection ends a drag during which the character list     *)
(* stayed as it was, the selected characters are those the hit-test and    *)
(* extension algorithm gives for the rectangle spanned by the point of     *)
(* start_selection and the point of the last update_selection, whatever    *)
(* the drag passed through and whatever was selected before it; they are   *)
(* none if no update_selection followed start_selection.                   *)
(***************************************************************************)
C16_DragEndpointsDecide ==
    [][(last'.op = "end_selection" /\ drag # None) =>
          selection_state'.selected_chars =
              IF drag[1].last = None THEN <<>>
              ELSE _update_selected_chars(
                       [SelectionState EXCEPT !.start = Some(drag[1].start),
                                              !.end = drag[1].last,
                                              !.is_selecting = TRUE],
                       selectable_chars).selected_chars]_vars

\* a drag over the grid was ended with one character selected
C16_Witness ==
    /\ last.op = "end_selection"
    /\ selection_state.start = Some(<<10, 5>>)
    /\ selection_state.end = Some(<<12, 5>>)
    /\ Len(selection_state.selected_chars) = 1
    /\ selectable_chars = GridChars

\* a drag was started on a frozen selection and ended at once
C16_WitnessNoUpdate ==
    /\ last.op = "end_selection"
    /\ selection_state.start # None
    /\ selection_state.end = selection_state.start
    /\ selection_state.selected_chars = <<>>
    /\ selectable_chars # <<>>

\* the order of the line buckets used for selection: page index, line key
\* of y plus the page's y offset, x plus the page's x offset
OffsetKeyBefore(c, d) ==
    \/ c.page_index < d.page_index
    \/ /\ c.page_index = d.page_index
       /\ \/ LineKey(OffsetY(c)) < LineKey(OffsetY(d))
          \/ LineKey(OffsetY(c)) = LineKey(OffsetY(d)) /\ OffsetX(c) < OffsetX(d)

SortedByOffsetKey(seq) ==
    LET n == Len(seq)
        pos(i) == 1 + Cardinality({j \in 1..n :
                        \/ OffsetKeyBefore(seq[j], seq[i])
                        \/ (~OffsetKeyBefore(seq[i], seq[j]) /\ j < i)})
    IN [k \in 1..n |-> seq[CHOOSE i \in 1..n : pos(i) = k]]

(***************************************************************************)
(* C17: selected_text takes the selected characters in the order of (page  *)
(* index, line key of y plus the page's y offset, x plus the page's x      *)
(* offset), the order of the line buckets used for selection.              *)
(***************************************************************************)
C17_TextOrderByOffsetKey ==
    sorted_chars(selection_state.selected_chars)
        = SortedByOffsetKey(selection_state.selected_chars)

\* The characters of a text that are not separators put in by selected_text
\* (no character of the lists given to the engine is a space or a newline).
Separators == {" ", "\n"}

\* where the i-th selected character stands in the text
GlyphPos(text, i) ==
    CHOOSE k \in 1..Len(text) :
        /\ text[k] \notin Separators
        /\ Cardinality({j \in 1..k : text[j] \notin Separators}) = i

\* what the text holds between the i-th selected character and the next
Between(text, i) ==
    SubSeq(text, GlyphPos(text, i) + 1, GlyphPos(text, i + 1) - 1)

(***************************************************************************)
(* C18: in selected_text a new output line starts between two consecutive  *)
(* sorted characters exactly when the page index changes or the absolute   *)
(* y difference exceeds half of the previous character's height, and the   *)
(* lines are joined by a single newline.                                   *)
(***************************************************************************)
C18_LineBreaks ==
    LET TextNow == selected_text(selection_state)
        SortedNow == sorted_chars(selection_state.selected_chars)
    IN
    /\ \A i \in 1..(Len(SortedNow) - 1) :
           (Between(TextNow, i) = <<"\n">>)
               <=> \/ SortedNow[i + 1].page_index # SortedNow[i].page_index
                   \/ 2 * Abs(SortedNow[i + 1].y - SortedNow[i].y)
                          > SortedNow[i].height
    /\ \A k \in 1..Len(TextNow) :
           TextNow[k] = "\n" =>
               /\ 1 < k /\ k < Len(TextNow)
               /\ TextNow[k + 1] # "\n"

(***************************************************************************)
(* C19: between two consecutive characters on one output line of           *)
(* selected_text there is exactly one space if the gap                     *)
(* x - (prevX + prevWidth) is greater than 0.3 times the average of the    *)
(* two widths, and nothing if it is less than or equal to that; no line    *)
(* starts with an inserted space.                                          *)
(***************************************************************************)
C19_Spaces ==
    LET TextNow == selected_text(selection_state)
        SortedNow == sorted_chars(selection_state.selected_chars)
    IN
    /\ \A i \in 1..(Len(SortedNow) - 1) :
           LET between == Between(TextNow, i)
           IN between # <<"\n">> =>
               between =
                   IF 20 * (SortedNow[i + 1].x
                            - (SortedNow[i].x + SortedNow[i].width))
                          > 3 * (SortedNow[i + 1].width + SortedNow[i].width)
                   THEN <<" ">> ELSE <<>>
    /\ \A k \in 1..Len(TextNow) :
           TextNow[k] = " " => k > 1 /\ TextNow[k - 1] # "\n"

\* end_selection passed on a line with a space after a gap above the
\* threshold and none after a gap equal to it
C19_Witness ==
    /\ last.op = "end_selection"
    /\ emitted = << <<"T", "\n", "s", " ", "u", "v">> >>
    /\ selected_text(selection_state) = emitted[1]

(***************************************************************************)
(* C20: for a selection whose characters share one line bucket,            *)
(* get_highlight_rects returns one rectangle: the least x, the least y,    *)
(* the greatest x + width and the greatest y + height of the selected      *)
(* characters, page offsets applied; for an empty selection it returns no  *)
(* rectangle.                                                              *)
(***************************************************************************)
C20_SingleLineRect ==
    LET chars == selection_state.selected_chars
        idx == 1..Len(chars)
        keys == {LineKey(OffsetY(chars[i])) : i \in idx}
    IN last.op = "get_highlight_rects" =>
         /\ chars = <<>> => ret = <<>>
         /\ (chars # <<>> /\ Cardinality(keys) = 1) =>
              ret = << << MinOf([i \in idx |-> OffsetX(chars[i])]),
                          MinOf([i \in idx |-> OffsetY(chars[i])]),
                          MaxOf([i \in idx |->
                                     OffsetX(chars[i]) + chars[i].width]),
                          MaxOf([i \in idx |->
                                     OffsetY(chars[i]) + chars[i].height])
                       >> >>

(***************************************************************************)
(* C21: for a selection spanning k >= 2 line buckets, get_highlight_rects  *)
(* returns k rectangles in ascending line-key order.  The first runs from  *)
(* the first selected character's x to the right end of its line in the    *)
(* whole character list, the last from the left end of its line in the     *)
(* whole character list to the last selected character's right edge, each  *)
(* middle one over the full extent of its line in the whole character      *)
(* list.  (Lines are those that have a character in the whole list.)       *)
(***************************************************************************)
C21_MultiLineRects ==
    LET chars == selection_state.selected_chars
        key(c) == LineKey(OffsetY(c))
        keys == {key(chars[i]) : i \in 1..Len(chars)}
        k == Cardinality(keys)
        nth(i) == CHOOSE q \in keys : Cardinality({j \in keys : j < q}) = i - 1
        sel(q) == {chars[i] : i \in {j \in 1..Len(chars) : key(chars[j]) = q}}
        all(q) == {selectable_chars[i] :
                      i \in {j \in 1..Len(selectable_chars) :
                                key(selectable_chars[j]) = q}}
        left(q) == CHOOSE m \in {OffsetX(c) : c \in all(q)} :
                       \A c \in all(q) : m <= OffsetX(c)
        right(q) == CHOOSE m \in {OffsetX(c) + c.width : c \in all(q)} :
                        \A c \in all(q) : m >= OffsetX(c) + c.width
        first_x(q) == CHOOSE m \in {OffsetX(c) : c \in sel(q)} :
                          \A c \in sel(q) : m <= OffsetX(c)
        last_edges(q) == {OffsetX(c) + c.width :
                             c \in {d \in sel(q) :
                                      \A e \in sel(q) :
                                          OffsetX(e) <= OffsetX(d)}}
    IN (last.op = "get_highlight_rects" /\ k >= 2) =>
         /\ Len(ret) = k
         /\ \A i \in 1..k :
              all(nth(i)) # {} =>
                /\ ret[i][1] = IF i = 1 THEN first_x(nth(i)) ELSE left(nth(i))
                /\ IF i = k /\ i > 1 THEN ret[i][3] \in last_edges(nth(i))
                   ELSE ret[i][3] = right(nth(i))
                /\ \E c \in sel(nth(i)) : ret[i][2] = OffsetY(c)

\* three rectangles were returned for a selection of part of the first line,
\* the whole second line and part of the third
C21_Witness ==
    /\ last.op = "get_highlight_rects"
    /\ selectable_chars = GridChars
    /\ ret = << <<10, 0, 30, 10>>, <<0, 10, 30, 20>>, <<0, 20, 20, 30>> >>

(***************************************************************************)
(* C22: get_annotation_rects returns one entry for each page index that    *)
(* occurs among the selected characters and no other; each entry is a      *)
(* non-empty list of rectangles whose coordinates are page-local           *)
(* coordinates of that page's selected characters divided by the scale,    *)
(* page offsets not applied; an empty selection gives an empty mapping.    *)
(***************************************************************************)
C22_AnnotationRectsByPage ==
    LET chars == selection_state.selected_chars
        on(p) == {chars[i] : i \in {j \in 1..Len(chars) :
                                       chars[j].page_index = p}}
        over(v) == <<10 * v, last.args[1]>>
    IN last.op = "get_annotation_rects" =>
         /\ DOMAIN ret = {chars[i].page_index : i \in 1..Len(chars)}
         /\ chars = <<>> => ret = <<>>
         /\ \A p \in DOMAIN ret :
              /\ ret[p] # <<>>
              /\ \A r \in 1..Len(ret[p]) :
                   /\ \E c \in on(p) : ret[p][r][1] = over(c.x)
                   /\ \E c \in on(p) : ret[p][r][2] = over(c.y)
                   /\ \E c \in on(p) : ret[p][r][3] = over(c.x + c.width)
                   /\ \E c \in on(p) : ret[p][r][4] = over(c.y + c.height)

\* rectangles were returned at scale 2.0 for characters of two pages, the
\* second page laid out at an offset
C22_Witness ==
    /\ last = Call("get_annotation_rects", <<20>>)
    /\ DOMAIN ret = {0, 1}
    /\ \E i \in 1..Len(selection_state.selected_chars) :
           /\ selection_state.selected_chars[i].page_index = 1
           /\ selection_state.selected_chars[i].page_offset_y > 0
    /\ Len(ret[0]) = 2

\* the smoothing was called on a list of points; its scale is 1.0 in the
\* viewer's variant
Smoothed == last.op \in {"Viewer_catmull_rom_to_bezier",
                         "Renderer_catmull_rom_to_bezier"}
SmoothScale == IF last.op = "Renderer_catmull_rom_to_bezier"
               THEN last.args[2] ELSE 10

(***************************************************************************)
(* C23 as claimed: for n input points the smoothing emits nothing when     *)
(* n < 2, a move to the first point and a straight segment to the second   *)
(* when n = 2, and when n >= 3 a move to the first point and n - 1 cubic   *)
(* segments whose end points are the second to the last input points       *)
(* unchanged.                                                              *)
(***************************************************************************)
C23_EndPointsUnchanged ==
    LET points == last.args[1]
        n == Len(points)
    IN Smoothed =>
         /\ n < 2 => ret = <<>>
         /\ n = 2 => ret = <<MoveTo(60 * points[1][1], 60 * points[1][2]),
                            LineTo(60 * points[2][1], 60 * points[2][2])>>
         /\ n >= 3 =>
              /\ Len(ret) = n
              /\ ret[1] = MoveTo(60 * points[1][1], 60 * points[1][2])
              /\ \A i \in 2..n :
                   /\ ret[i].op = "CubicTo"
                   /\ ret[i].x = 60 * points[i][1]
                   /\ ret[i].y = 60 * points[i][2]

(***************************************************************************)
(* C23 as amended: the same, with the end points unchanged in the viewer's *)
(* smoothing and each input point multiplied by the scale argument in the  *)
(* renderer's.                                                             *)
(***************************************************************************)
C23_EndPointsAreSamples ==
    LET points == last.args[1]
        n == Len(points)
        at(i) == <<6 * SmoothScale * points[i][1],
                   6 * SmoothScale * points[i][2]>>
    IN Smoothed =>
         /\ n < 2 => ret = <<>>
         /\ n = 2 => ret = <<MoveTo(at(1)[1], at(1)[2]),
                            LineTo(at(2)[1], at(2)[2])>>
         /\ n >= 3 =>
              /\ Len(ret) = n
              /\ ret[1] = MoveTo(at(1)[1], at(1)[2])
              /\ \A i \in 2..n :
                   /\ ret[i].op = "CubicTo"
                   /\ ret[i].x = at(i)[1]
                   /\ ret[i].y = at(i)[2]

\* four points that are not on a line were smoothed by the renderer at
\* scale 2.0, with control points off the samples
C23_Witness ==
    /\ last = Call("Renderer_catmull_rom_to_bezier",
                   <<<< <<0, 0>>, <<3, 4>>, <<6, 0>>, <<3, 4>> >>, 20>>)
    /\ Len(ret) = 4
    /\ ret[3].cp1x # ret[2].x
    /\ ret[4].x = 360

(***************************************************************************)
(* C24: clear, from any state and so also right after a clear, leaves the  *)
(* selection state empty (no start, no end, not selecting, nothing         *)
(* selected); so does end_selection when no start_selection was made since *)
(* construction or the last clear.  Neither raises an error or calls the   *)
(* callback then.                                                          *)
(***************************************************************************)
C24_ClearIdempotent ==
    [][(\/ last'.op = "Selection_clear"
        \/ last'.op = "end_selection" /\ selection_state.start = None)
       => /\ selection_state' = [start |-> None, end |-> None,
                                 is_selecting |-> FALSE,
                                 selected_chars |-> <<>>]
          /\ raised' = ""
          /\ emitted' = <<>>
          /\ (last.op = "Selection_clear" => selection_state' = selection_state)
      ]_vars

\* end_selection was called with characters to select from and no
\* start_selection before it
C24_Witness ==
    /\ last.op = "end_selection"
    /\ selection_state.start = None
    /\ selectable_chars # <<>>
    /\ emitted = <<>>

(***************************************************************************)
(* C25: start_shape while the shape type is NONE and update_shape while    *)
(* not drawing leave the whole shape state as it was; update_shape while   *)
(* drawing changes the end point and nothing else: not the start point,    *)
(* the shape type, the colours or the width.                               *)
(***************************************************************************)
C25_ShapeGuards ==
    [][/\ (last'.op = "start_shape" /\ shape_state.shape_type = "none")
            => shape_state' = shape_state
       /\ (last'.op = "update_shape" /\ ~shape_state.is_drawing)
            => shape_state' = shape_state
       /\ (last'.op = "update_shape" /\ shape_state.is_drawing)
            => shape_state' =
                   [shape_state EXCEPT !.end_x = Some(last'.args[1]),
                                       !.end_y = Some(last'.args[2])]
      ]_vars

\* update_shape moved the end point of a shape being drawn away from its
\* start point
C25_Witness ==
    /\ last.op = "update_shape"
    /\ shape_state.is_drawing
    /\ shape_state.end_x # shape_state.start_x
    /\ shape_state.end_x = Some(last.args[1])

\* start_shape was called with no shape type active
C25_WitnessNone ==
    /\ last.op = "start_shape"
    /\ shape_state.shape_type = "none"
    /\ shape_state.start_x = None
    /\ shape_state.stroke_color # "black"

(***************************************************************************)
(* C26: in every reachable state of the ink engine, enabled = false        *)
(* implies that the current path is empty; start_stroke and add_point      *)
(* called while disabled leave the state as it was.                        *)
(***************************************************************************)
C26_DisabledHasNoPath ==
    [][/\ ~drawing_state.enabled => drawing_state.current_path = <<>>
       /\ ~drawing_state'.enabled => drawing_state'.current_path = <<>>
       /\ (last'.op \in {"start_stroke", "add_point"}
           /\ ~drawing_state.enabled)
            => drawing_state' = drawing_state]_vars

\* add_point was called on an engine that had been enabled and disabled
C26_Witness ==
    /\ last.op = "add_point"
    /\ ~drawing_state.enabled
    /\ drawing_state.color = "red"
    /\ drawing_state.current_path = <<>>

(***************************************************************************)
(* C27: enabling an engine again in the middle of a gesture discards the   *)
(* gesture.  The ink engine's enable leaves the current path empty; the    *)
(* shape engine's enable leaves is_drawing false and both points unset,    *)
(* so that an end_shape that follows returns nothing.                      *)
(***************************************************************************)
C27_EnableDiscardsGesture ==
    [][/\ last'.op = "Drawing_enable" =>
            /\ drawing_state'.enabled
            /\ drawing_state'.current_path = <<>>
       /\ last'.op = "Shape_enable" =>
            /\ ~shape_state'.is_drawing
            /\ shape_state'.start_x = None /\ shape_state'.start_y = None
            /\ shape_state'.end_x = None /\ shape_state'.end_y = None
            /\ end_shape(shape_state').ret = None]_vars

\* the ink engine was enabled again with two points recorded
C27_Witness ==
    /\ last.op = "Drawing_enable"
    /\ last.pre = 2
    /\ drawing_state.current_path = <<>>

\* the shape engine was enabled again while a shape was being drawn
C27_WitnessShape ==
    /\ last.op = "Shape_enable"
    /\ last.pre
    /\ ~shape_state.is_drawing

(***************************************************************************)
(* C28: search with an empty query leaves the search state as clear_search *)
(* leaves it (no results, index -1, empty query) and the rest of the       *)
(* viewer as it was, whatever the state before; it returns an empty list   *)
(* and calls search_text for no page.                                      *)
(***************************************************************************)
C28_EmptyQueryClears ==
    [][(last'.op = "search" /\ last'.args[1] = "")
       => /\ search_results' = <<>>
          /\ search_index' = -1
          /\ search_query' = ""
          /\ search_vars' = <<clear_search(Self).search_results,
                              clear_search(Self).search_index,
                              clear_search(Self).search_query>>
          /\ ret' = Some(<<>>) /\ raised' = ""
          /\ last'.pages = <<>>
          /\ UNCHANGED <<source, current_page, mode, scale>>]_vars

\* a search with an empty query was made over the results of an earlier one
C28_Witness ==
    /\ last.op = "search"
    /\ last.args[1] = ""
    /\ source # None
    /\ last.pre > 1
    /\ search_results = <<>>

(***************************************************************************)
(* C29: search_next and search_prev called while there are no results      *)
(* return nothing and leave the results, the index (-1), the query and     *)
(* the current page as they were.                                          *)
(***************************************************************************)
C29_NoResultsNoMove ==
    [][(last'.op \in {"search_next", "search_prev"} /\ search_results = <<>>)
       => /\ ret' = None /\ raised' = ""
          /\ search_index = -1
          /\ UNCHANGED <<search_results, search_index, search_query,
                         current_page>>]_vars

\* search_prev was called on a document after a search that found nothing
C29_Witness ==
    /\ last.op = "search_prev"
    /\ last.pre = 0
    /\ source # None
    /\ search_query = "c"
    /\ current_page > 0
    /\ ret = None

(***************************************************************************)
(* C30: goto_search_result(index) with 0 <= index < number of results sets *)
(* the index to index and returns that result; with any other index it     *)
(* returns nothing and leaves the index and the current page as they were. *)
(***************************************************************************)
C30_GotoResult ==
    [][last'.op = "goto_search_result"
       => LET index == last'.args[1] IN
          IF 0 <= index /\ index < Len(search_results)
          THEN /\ search_index' = index
               /\ raised' = ""
               /\ ret' = Some(search_results[index + 1])
          ELSE /\ ret' = None /\ raised' = ""
               /\ UNCHANGED <<search_index, current_page>>]_vars

(***************************************************************************)
(* C31: on_selection_change is called when the text selection changes and  *)
(* receives the selected text: a viewer call that changes the selected     *)
(* text and leaves no drag in progress, also one that clears a non-empty   *)
(* selection, calls the callback, last with the new text.                  *)
(***************************************************************************)
C31_SelectionChangeReported ==
    [][LET old == selected_text(selection_state)
           new == selected_text(selection_state')
       IN (new # old /\ ~selection_state'.is_selecting)
          => /\ emitted' # <<>>
             /\ emitted'[Len(emitted')] = new]_vars

(***************************************************************************)
(* C32: the arrow head is a pure function of start point, end point and    *)
(* stroke width.  A call changes no viewer or engine state; its result is  *)
(* the same whatever the state of the viewer and the same on a repeated    *)
(* call; the triangle is the end point and two back points at distance     *)
(* L = max(12, 4 x stroke width) from it, 30 degrees to either side of the  *)
(* line: with u the direction of the line and v a back point less the end  *)
(* point, u.v = -L * sqrt(3)/2 and u x v = L/2 for one, -L/2 for the other. *)
(***************************************************************************)
C32_ArrowHeadPure ==
    [][last'.op = "_create_arrow_head" =>
       LET a == last'.args
           x1 == a[1]  y1 == a[2]  x2 == a[3]  y2 == a[4]
           L == IF 4 * a[6] > 12 THEN 4 * a[6] ELSE 12
           ux == IF y1 # y2 THEN 0 ELSE IF x2 < x1 THEN -1 ELSE 1
           uy == IF y1 = y2 THEN 0 ELSE IF y2 < y1 THEN -1 ELSE 1
           path == ret'[1].path
           \* twice the back point less the end point, as <<a, b>> pairs
           vx(i) == <<path[i][1][1] - 2 * x2, path[i][1][2]>>
           vy(i) == <<path[i][2][1] - 2 * y2, path[i][2][2]>>
           Dot(i) == <<ux * vx(i)[1] + uy * vy(i)[1],
                       ux * vx(i)[2] + uy * vy(i)[2]>>
           Cross(i) == <<ux * vy(i)[1] - uy * vx(i)[1],
                         ux * vy(i)[2] - uy * vx(i)[2]>>
       IN /\ UNCHANGED <<shape_state, drawing_state, selection_state,
                         selectable_chars, search_vars, source, current_page,
                         scale, mode, popup_visible, on_page_change>>
          /\ raised' = ""
          /\ \A sc \in Scales, t \in DrawnShapes :
                _create_arrow_head(
                    [Self EXCEPT !.scale = sc, !.shape_state.shape_type = t],
                    x1, y1, x2, y2, a[5], a[6]).ret = ret'
          /\ (last.op = "_create_arrow_head" /\ last.args = a) => ret' = ret
          /\ Len(path) = 3
          /\ path[1] = <<<<2 * x2, 0>>, <<2 * y2, 0>>>>
          /\ Dot(2) = <<0, -L>> /\ Dot(3) = <<0, -L>>
          /\ {Cross(2), Cross(3)} = {<<L, 0>>, <<-L, 0>>}]_vars

\* an arrow head was made for a thin line drawn to the left, on a viewer
\* that had been given a scale and a shape type
C32_Witness ==
    /\ last.op = "_create_arrow_head"
    /\ last.args[1] > last.args[3]
    /\ last.args[6] = 2
    /\ scale # 10 /\ Shape_enabled(shape_state)
    /\ ret[1].path[2] = <<<<0, 12>>, <<-12, 0>>>>

(***************************************************************************)
(* C33: a pan-end event received in ink mode gives a stroke to the         *)
(* document (add_ink, once) exactly when a source is loaded and the path   *)
(* recorded has at least two points; in every case the ink path is empty   *)
(* afterwards and ink mode is still enabled.                               *)
(***************************************************************************)
C33_InkSavedOnPanEnd ==
    [][(last'.op = "pan" /\ last'.event = "end" /\ drawing_state.enabled)
       => /\ last'.saved =
                IF source # None /\ Len(drawing_state.current_path) >= 2
                THEN <<Len(drawing_state.current_path)>>
                ELSE <<>>
          /\ drawing_state'.current_path = <<>>
          /\ drawing_state'.enabled]_vars

\* a drag in ink mode over a document ended and its stroke was saved
C33_Witness ==
    /\ last.op = "pan" /\ last.event = "end"
    /\ last.saved = <<2>>
    /\ source # None
    /\ drawing_state.enabled
    /\ drawing_state.current_path = <<>>

\* a drag in ink mode over a document ended and nothing was saved
C33_WitnessShort ==
    /\ last.op = "pan" /\ last.event = "end"
    /\ last.args = <<"ink">>
    /\ last.saved = <<>>
    /\ source # None
    /\ drawing_state.enabled

(***************************************************************************)
(* C34: after every pan-end event no engine is left in the middle of a     *)
(* gesture: the selection is frozen (is_selecting false), the shape engine *)
(* is not drawing and the ink path is empty, also when enable_drawing,     *)
(* enable_shape_drawing, disable_drawing or disable_shape_drawing was      *)
(* called between the pan-start and the pan-end of the drag.               *)
(***************************************************************************)
C34_NoGestureAfterPanEnd ==
    (last.op = "pan" /\ last.event = "end")
    => /\ ~selection_state.is_selecting
       /\ ~shape_state.is_drawing
       /\ drawing_state.current_path = <<>>

(***************************************************************************)
(* C35: in single-page and double-page mode, when search, search_next,     *)
(* search_prev or goto_search_result returns a result (for search, the     *)
(* result at the index it leaves) whose page index is a page of the        *)
(* document loaded, the current page on return is the page of that result, *)
(* and on_page_change was called only with a page other than the one shown *)
(* at that moment; in continuous mode these calls never change the current *)
(* page.                                                                   *)
(***************************************************************************)
C35_PageFollowsResult ==
    [][(last'.op \in NavigationOps \cup {"search"} /\ raised' = "")
       => LET returned_result ==
                  IF last'.op # "search" THEN ret'
                  ELSE IF ret' = Some(<<>>) THEN None
                  ELSE Some(ret'[1][search_index' + 1])
              shown == <<current_page>> \o last'.notified
          IN IF mode = "continuous"
             THEN current_page' = current_page /\ last'.notified = <<>>
             ELSE /\ (/\ returned_result # None
                      /\ source # None
                      /\ returned_result[1].page_index
                             \in 0..(page_count(source[1]) - 1))
                     => current_page' = returned_result[1].page_index
                  /\ \A i \in 1..Len(last'.notified) :
                        shown[i + 1] # shown[i]]_vars

\* search_next has moved a single-page viewer to the page of the next result
C35_Witness ==
    /\ source # None
    /\ last.op = "search_next"
    /\ mode = "single"
    /\ last.notified = <<2>>
    /\ current_page = 2
    /\ ret # None /\ ret[1].page_index = 2

\* goto_search_result has returned a result of another page in continuous mode
C35_WitnessContinuous ==
    /\ last.op = "goto_search_result"
    /\ mode = "continuous"
    /\ ret # None /\ ret[1].page_index # current_page

(***************************************************************************)
(* C36: in every reachable state of the viewer the selection popup is      *)
(* visible only if the selection is non-empty and no drag is in progress:  *)
(* a call that leaves the selection empty, a pan-start handed to the       *)
(* selection engine and a rebuild of the content each leave the popup      *)
(* hidden, and after a pan-end the popup is visible only with at least one *)
(* character selected.                                                     *)
(***************************************************************************)
C36_PopupNeedsSelection ==
    [][/\ popup_visible =>
            /\ selection_state.selected_chars # <<>>
            /\ ~selection_state.is_selecting
       /\ popup_visible' =>
            /\ selection_state'.selected_chars # <<>>
            /\ ~selection_state'.is_selecting
       /\ replaced' # None => ~popup_visible'
       /\ (last'.op = "pan" /\ last'.event = "start"
           /\ last'.args = <<"selection">>) => ~popup_visible'
       /\ (last'.op = "pan" /\ last'.event = "end" /\ popup_visible')
            => selection_state'.selected_chars # <<>>]_vars

\* a drag that selected a character has ended and the popup is shown
C36_Witness ==
    /\ last.op = "pan" /\ last.event = "end"
    /\ last.args = <<"selection">>
    /\ popup_visible
    /\ selection_state.selected_chars # <<>>

\* a drag that selected nothing has ended and the popup is hidden
C36_WitnessEmpty ==
    /\ last.op = "pan" /\ last.event = "end"
    /\ last.args = <<"selection">>
    /\ selection_state.start # None
    /\ selection_state.selected_chars = <<>>
    /\ ~popup_visible

(***************************************************************************)
(* C37: multi-line extension only adds characters: after every             *)
(* update_selection every character whose box has open intersection with   *)
(* the drag rectangle is one of the selected characters, whatever the      *)
(* widths of the characters and also when their boxes overlap.             *)
(***************************************************************************)
C37_DirectHitsSelected ==
    AfterUpdate =>
        \A i \in DirectHits : selectable_chars[i] \in SelectedSet

(***************************************************************************)
(* C38: every selected character is covered by the annotation geometry:    *)
(* for each page, the box of each selected character of the page, divided  *)
(* by the scale, lies inside one of the rectangles get_annotation_rects    *)
(* returns for the page.                                                   *)
(***************************************************************************)
C38_SelectedCharsCovered ==
    last.op = "get_annotation_rects" =>
        LET chars == selection_state.selected_chars
            scale_arg == last.args[1]
        IN \A i \in 1..Len(chars) :
              LET box == char_rect(chars[i], scale_arg)
                  rects == ret[chars[i].page_index]
              IN \E r \in 1..Len(rects) :
                    /\ rects[r][1][1] <= box[1][1]
                    /\ rects[r][2][1] <= box[2][1]
                    /\ rects[r][3][1] >= box[3][1]
                    /\ rects[r][4][1] >= box[4][1]

(***************************************************************************)
(* C39: in every state of the shape engine reachable by enable (with any   *)
(* shape type, NONE too), disable, start_shape, update_shape, end_shape    *)
(* and cancel_shape, is_drawing = true implies that the shape type is not  *)
(* NONE; so end_shape never returns a tuple whose type is NONE.            *)
(***************************************************************************)
C39_DrawingHasType ==
    [][/\ shape_state.is_drawing => shape_state.shape_type # "none"
       /\ shape_state'.is_drawing => shape_state'.shape_type # "none"
       /\ (last'.op = "end_shape" /\ ret' # None)
            => ret'[1][1] # "none"]_vars

\* enable was called with the type NONE while a shape was being drawn
C39_Witness ==
    /\ last.op = "Shape_enable"
    /\ last.pre
    /\ last.args[1] = "none"
    /\ ~shape_state.is_drawing
    /\ shape_state.shape_type = "none"

(***************************************************************************)
(* C40: the line key round(y / 10) of the offset y cuts the vertical axis  *)
(* into bands of 10 units: it is non-decreasing in y, and two characters   *)
(* whose offset y values differ by 10 or more never get the same key, also *)
(* at the odd multiples of 5, where y / 10 is halfway between two whole    *)
(* numbers.                                                                *)
(***************************************************************************)
C40_LineKeyBands ==
    last.op = "line_key" =>
        LET y1 == last.args[1]
            y2 == last.args[2]
            k1 == ret[1][1]
            k2 == ret[1][2]
        IN /\ y1 <= y2 => k1 <= k2
           /\ y2 - y1 >= 10 => k1 # k2

============================================================================
